---- MODULE Spec2Model ----
(***************************************************************************)
(* Page-capture pipeline of site-genie: scrapeUrl (scraper), crop          *)
(* (cropper) and the readiness stages they share (dismissModals,           *)
(* triggerLazyLoadedImages, waitForImages).                                *)
(*                                                                         *)
(* One invocation of scrapeUrl or crop is a sequential async function: pc  *)
(* is the await it is suspended at.  Every awaited browser or filesystem   *)
(* call either returns or throws; which one is the environment's choice.   *)
(* browser.close() is the teardown and is taken to return.                 *)
(*                                                                         *)
(* Spec: one call of scrapeUrl, crop or scrapeUrls.  SpecReadiness:        *)
(* triggerLazyLoadedImages and waitForImages called on their own, step by  *)
(* step; timers are taken to fire exactly when they are due.  SpecCaptures:*)
(* the end of scrapeUrl (settle wait, generateFilename, the two writes) for*)
(* calls that run side by side against one clock and one filesystem.       *)
(* SpecResult: one such call up to its return value.  SpecSettling: one    *)
(* call of scrapeUrl with the scroll sweep taken turn by turn, under weak  *)
(* fairness.  SpecCli: the five tools run as commands, from argv to the    *)
(* exit status.                                                            *)
(***************************************************************************)
EXTENDS Integers, Sequences, FiniteSets, TLC

VARIABLES
  op,            \* the exported function that was called: "scrapeUrl" | "crop"
  arg,           \* its argument: a url (scrapeUrl) or a subfolder (crop)
  pc,            \* the await the call is suspended at
  outcome,       \* "pending" | "resolved" | "rejected"
  error,         \* the step whose exception is propagating / was rejected with
  result,        \* the value scrapeUrl returns (NoResult until the return statement)
  browser,       \* "none" | "open" | "closed"
  context,       \* "none" | "open" | "closed"
  page,          \* "none" | "open"
  closeCalls,    \* number of browser.close() calls issued
  openBrowsers,  \* browser processes launched by this process and not closed
  hosted,        \* contexts and pages created in the browser launched last
  gotoLog,       \* the page.goto calls issued, by waitUntil, in order
  gotoFailed,    \* the waitUntil values whose goto threw
  navTier,       \* "none" | "primary" | "fallback": the tier that succeeded
  graceMs,       \* the fixed waits applied after a fallback navigation, in order
  loadState,     \* "none" | "ok" | "timeout": outcome of waitForLoadState('load')
  humanScroll,   \* offsets of the random scroll after navigation, in order
  jitterMs,      \* lengths of the extra wait after the random scroll, in order
  events,        \* pipeline events in the order they happened
  manifest,      \* crop: the components read from manifest.json
  compIdx,       \* crop: number of components the loop has finished with
  cropLog,       \* crop: what the loop did with each component, in order
  cropSteps,     \* crop: the locator and page calls of the loop, in order
  analysisMade,  \* crop: whether it has called mkdir(analysisDir)
  selIdx,        \* dismissModals: number of selectors the loop has finished with
  probes,        \* dismissModals: the selectors probed (isVisible called), in order
  clicks,        \* dismissModals: elements actually clicked away
  dismissed,     \* dismissModals: the local counter `dismissed`
  escapes,       \* dismissModals: the Escape key presses issued, by outcome
  reported,      \* dismissModals: the count its final log line reports (-1: none yet)
  files,         \* files written under output/, as records
  caller,        \* "none", or "scrapeUrls" when scrapeUrl runs inside its loop
  urls,          \* scrapeUrls: its argument
  urlIdx,        \* scrapeUrls: position of the url being scraped (0: none yet)
  results,       \* scrapeUrls: the local array `results`
  batchLog,      \* scrapeUrls: scrapeUrl calls started and settled, in order
  batchOutcome,  \* scrapeUrls: "pending" | "resolved" | "rejected"
  batchError,    \* scrapeUrls: the error it rejects with
  batchValue,    \* scrapeUrls: the values its promise resolved with (at most one)
  remaining,     \* triggerLazyLoadedImages: scrollHeight - currentPosition
  timeoutMs,     \* waitForImages: its timeout argument
  elapsed,       \* waitForImages: Date.now() - startTime
  polls,         \* waitForImages: calls of checkImages so far
  images,        \* waitForImages: the img elements of the page, in document order
  visible,       \* waitForImages: visibleImages.length at the last poll
  loaded,        \* waitForImages: how many of those were loaded at the last poll
  imagesLog,     \* waitForImages: the console lines it wrote, in order
  now,           \* the system clock: [day since 1970-01-01, ms of that day], UTC
  delays,        \* number of times the clock was seen to advance
  tasks,         \* concurrent scrapeUrl calls, each at the end of its pipeline
  writes,        \* files written by those calls: path and writer
  tool,          \* command line: which tool was started as a command
  argv,          \* command line: process.argv from index 2 on
  cliPc,         \* command line: where the command's script is
  stepNo,        \* command line: the step of the start workflow being awaited
  stepLog,       \* command line: the steps start() began and how each ended
  failure,       \* command line: the fatal failure that has happened, if any
  exitCode,      \* command line: the exit status of the process
  dPc,           \* deconstructSite: the await it is at
  dArg,          \* deconstructSite: the subfolder it was called with
  dOutcome,      \* deconstructSite: "pending" | "resolved" | "rejected"
  dError,        \* deconstructSite: the message of the error it rejected with
  htmlFile,      \* deconstructSite: what getLatestFile gave, <<>> for null
  screenshotFile,\* deconstructSite: the same for the screenshots directory
  dEffects,      \* deconstructSite: directories, files and processes it made
  manifestJson,  \* output/<subfolder>/analysis/manifest.json: its content
  siteHost,      \* domain folder: hostname of the url given to scrapeUrl
  domainFolder,  \* domain folder: what getDomainFolder made of it, <<>> before
  cropHostname,  \* domain folder: the hostname crop derives from the folder
  domain,        \* domain folder: the domain deconstructSite derives from it
  genPc,         \* generate: the await it is at
  options,       \* generate: the GeneratorOptions it was called with
  genOutcome,    \* generate: "pending" | "resolved" | "rejected"
  genError,      \* generate: the message of the error it rejected with
  genEffects,    \* generate: directories, files, reads and processes it made
  genManifest,   \* generate: the components of the manifest it has read
  manifestFile,  \* analysis/manifest.json as the generator finds and leaves it
  manifestWas    \* the same file as it was when generate was called

vars == <<op, arg, pc, outcome, error, result, browser, context, page, closeCalls,
          openBrowsers, hosted,
          gotoLog, gotoFailed, navTier, graceMs, loadState, humanScroll, jitterMs,
          events, manifest, compIdx, cropLog, cropSteps, analysisMade,
          selIdx, probes, clicks, dismissed, escapes,
          reported, files, caller, urls, urlIdx, results, batchLog, batchOutcome,
          batchError, batchValue, remaining, timeoutMs, elapsed, polls, images, visible, loaded,
          imagesLog, now, delays, tasks, writes, tool, argv, cliPc, stepNo, stepLog,
          failure,
          exitCode, dPc, dArg, dOutcome, dError, htmlFile, screenshotFile, dEffects,
          manifestJson, siteHost, domainFolder, cropHostname, domain,
          genPc, options, genOutcome, genError, genEffects, genManifest, manifestFile,
          manifestWas>>

sessionVars == <<browser, context, page, closeCalls, openBrowsers, hosted>>
navVars     == <<gotoLog, gotoFailed, navTier, graceMs, loadState, humanScroll, jitterMs>>
dismissVars == <<selIdx, probes, clicks, dismissed, escapes, reported>>
cropVars    == <<manifest, compIdx, cropLog, cropSteps, analysisMade>>
batchVars   == <<caller, urls, urlIdx, results, batchLog, batchOutcome, batchError,
                 batchValue>>
imageVars   == <<timeoutMs, elapsed, polls, images, visible, loaded, imagesLog>>
\* state of the readiness functions when they are called on their own
readinessVars == <<remaining, imageVars>>
\* the clock and the scrapeUrl calls that run side by side in one process
captureVars == <<now, delays, tasks, writes>>
\* what the steps of scrapeUrl and crop never touch
\* a tool run as a command
cliVars     == <<tool, argv, cliPc, stepNo, stepLog, failure, exitCode>>
\* one call of deconstructSite
deconVars   == <<dPc, dArg, dOutcome, dError, htmlFile, screenshotFile, dEffects,
                 manifestJson>>
\* the tools that work on the files of the output folder
\* the domain folder of one site, from the url to the hostnames derived back
folderVars  == <<siteHost, domainFolder, cropHostname, domain>>
\* one call of generate
genVars     == <<genPc, options, genOutcome, genError, genEffects, genManifest,
                 manifestFile, manifestWas>>
offlineVars == <<deconVars, folderVars, genVars>>
auxVars     == <<batchVars, readinessVars, captureVars, cliVars, offlineVars>>

----------------------------------------------------------------------------
(* Bounds of the model *)

\* most elements of one page that the selector scan finds visible
MaxMatches == 2
\* most components in a manifest
MaxComponents == 2
\* most urls in one scrapeUrls call
MaxBatch == 2
\* largest distance between the sweep position and the page's scroll height
MaxRemaining == 2000
\* most visible images on a page
MaxImages == 2
\* most scrapeUrl calls in flight in one process
MaxTasks == 2
\* most times the clock is seen to advance in one run
MaxDelays == 2
\* most arguments on a command line
MaxArgs == 5

----------------------------------------------------------------------------
(* Inputs *)

\* A URL as the WHATWG parser splits it: hostname and pathname, as sequences
\* of one-character strings.
Urls ==
  { [hostname |-> <<"a", ".", "b">>, pathname |-> <<"/">>],
    [hostname |-> <<"w", ".", "a", ".", "b">>, pathname |-> <<"/", "p">>] }

RECURSIVE ReplaceAll(_, _, _)
ReplaceAll(s, from, to) ==
  IF s = <<>> THEN <<>>
  ELSE <<(IF Head(s) = from THEN to ELSE Head(s))>> \o ReplaceAll(Tail(s), from, to)

getDomainFolder(url) == ReplaceAll(url.hostname, ".", "-")

subfolderToHostname(subfolder) == ReplaceAll(subfolder, "-", ".")

Subfolders == { getDomainFolder(u) : u \in Urls }

\* Math.random() in thousandths: the least value, a middle one, the greatest
RandomSamples == {0, 500, 999}

\* window.scrollTo(0, Math.floor(Math.random() * 500))
randomScrollOffset(r) == (r * 500) \div 1000

\* Variant of randomExtraWait: the jitter spans 5000 ms instead of 2000.
randomExtraWait_WideJitter(r) == 3000 + (r * 5000) \div 1000

\* page.waitForTimeout(3000 + Math.random() * 2000), in whole milliseconds
randomExtraWait(r) == 3000 + (r * 2000) \div 1000

\* The selector kinds a manifest component can carry: no cssSelector, one
\* that matches nothing on the page, one that matches an element.
SelectorKinds == {"", ".missing", "body"}
ComponentNames == <<"A", "B", "C", "D">>

Manifests ==
  UNION { { [i \in 1..n |-> [name |-> ComponentNames[i], cssSelector |-> f[i]]] :
              f \in [1..n -> SelectorKinds] } : n \in 0..MaxComponents }

\* What JSON.parse gives for manifest.json: an object with a component list,
\* or one that has no `components` key at all.
ParsedManifests ==
  { [components |-> c] : c \in Manifests } \cup { [htmlSource |-> "index.html"] }

\* manifest.components ?? []
componentsOf(parsed) ==
  IF "components" \in DOMAIN parsed THEN parsed.components ELSE <<>>

----------------------------------------------------------------------------
(* dismissModals: the fixed candidate list *)

dismissSelectors ==
  << "[class*=\"close\"]", "[class*=\"Close\"]", "[id*=\"close\"]",
     "[aria-label*=\"close\" i]", "[aria-label*=\"dismiss\" i]",
     "button[title*=\"close\" i]", ".modal-close", ".popup-close",
     "button:has-text(\"Accept\")", "button:has-text(\"I Accept\")",
     "button:has-text(\"I Agree\")", "button:has-text(\"Accept All\")",
     "button:has-text(\"Agree\")", "button:has-text(\"OK\")",
     "button:has-text(\"Got it\")", "button:has-text(\"Continue\")",
     "a:has-text(\"Accept\")", "[id*=\"accept\"]", "[class*=\"accept\"]",
     "#onetrust-accept-btn-handler", ".cookie-consent-accept",
     "#cookie-consent-accept", "[aria-label*=\"accept cookie\" i]",
     "button:has-text(\"No thanks\")", "button:has-text(\"No Thanks\")",
     "button:has-text(\"Skip\")", "button:has-text(\"Maybe Later\")",
     "button:has-text(\"Not now\")",
     "[role=\"dialog\"] button[aria-label*=\"close\" i]",
     "[role=\"dialog\"] [class*=\"close\"]", ".modal button[class*=\"close\"]",
     "[aria-label*=\"Close dialog\" i]", "[aria-label*=\"Close popup\" i]",
     "button.klaviyo-close-form" >>

NumSelectors == Len(dismissSelectors)

----------------------------------------------------------------------------
(* Initial state: nothing has been called *)

TaskIds == 1..MaxTasks
IdleTask ==
  [pc |-> "idle", url |-> <<>>, wakeAt |-> <<>>, at |-> <<>>, name |-> <<>>,
   result |-> <<>>]

NoResult == [url |-> <<>>, htmlPath |-> <<>>, screenshotPath |-> <<>>]

InitState ==
  /\ op = "none" /\ arg = <<>> /\ pc = "idle"
  /\ outcome = "pending" /\ error = "none" /\ result = NoResult
  /\ browser = "none" /\ context = "none" /\ page = "none" /\ closeCalls = 0
  /\ openBrowsers = 0 /\ hosted = [contexts |-> 0, pages |-> 0]
  /\ gotoLog = <<>> /\ gotoFailed = {} /\ navTier = "none" /\ graceMs = <<>>
  /\ loadState = "none" /\ humanScroll = <<>> /\ jitterMs = <<>>
  /\ events = <<>>
  /\ manifest = <<>> /\ compIdx = 0 /\ cropLog = <<>> /\ cropSteps = <<>>
  /\ analysisMade = FALSE
  /\ selIdx = 0 /\ probes = <<>> /\ clicks = 0 /\ dismissed = 0 /\ escapes = <<>>
  /\ reported = -1
  /\ files = {}
  /\ caller = "none" /\ urls = <<>> /\ urlIdx = 0 /\ results = <<>> /\ batchLog = <<>>
  /\ batchOutcome = "pending" /\ batchError = "none" /\ batchValue = {}
  /\ remaining = 0
  /\ timeoutMs = 0 /\ elapsed = 0 /\ polls = 0 /\ images = <<>> /\ visible = 0 /\ loaded = 0
  /\ imagesLog = <<>>
  /\ delays = 0 /\ tasks = [k \in TaskIds |-> IdleTask] /\ writes = {}
  /\ tool = "none" /\ argv = <<>> /\ cliPc = "idle" /\ stepNo = 0 /\ stepLog = <<>>
  /\ failure = "none" /\ exitCode = 0
  /\ dPc = "idle" /\ dArg = <<>> /\ dOutcome = "pending" /\ dError = "none"
  /\ htmlFile = <<>> /\ screenshotFile = <<>> /\ dEffects = <<>>
  /\ manifestJson = "absent"
  /\ domainFolder = <<>> /\ cropHostname = <<>> /\ domain = <<>>
  /\ genPc = "idle" /\ genOutcome = "pending" /\ genError = "none" /\ genEffects = <<>>
  /\ options = [type |-> "none", subfolder |-> <<>>, sfNextDir |-> "",
                targetFile |-> "undefined", pageName |-> "undefined"]
  /\ genManifest = <<>>
  /\ manifestFile = [whole |-> TRUE, components |-> <<>>]
  /\ manifestWas = [whole |-> TRUE, components |-> <<>>]

\* the clock when the process starts
StartInstants ==
  { [day |-> 20759, ms |-> 27368999],     \* 2026-11-02T07:36:08.999Z
    [day |-> 20726, ms |-> 35998999],     \* 2026-09-30T09:59:58.999Z
    [day |-> 20818, ms |-> 86398999],     \* 2026-12-31T23:59:58.999Z
    [day |-> 21242, ms |-> 86398999],     \* 2028-02-28T23:59:58.999Z
    [day |-> 10956, ms |-> 86398999] }    \* 1999-12-31T23:59:58.999Z

Init ==
  /\ InitState
  /\ now = [day |-> 20759, ms |-> 27368999]
  /\ siteHost = <<>>

----------------------------------------------------------------------------
(* Exceptions *)

\* Variant of InTry: scrapeUrl creates its context before the try, as crop does.
InTry_ContextBeforeTry(o, p) ==
  p \notin {"dirs", "manifest", "mkdir", "launch", "context"}

\* Variant of InTry: the browser is launched inside the try block.
InTry_LaunchInsideTry(o, p) ==
  IF o = "scrapeUrl"
    THEN p \notin {"dirs"}
    ELSE p \notin {"manifest", "mkdir"}

\* Whether the await at p lies inside the function's try block, whose
\* finally closes the browser.  scrapeUrl: try { createStealthContext ...
\* return } finally.  crop: createStealthBrowser and createStealthContext
\* come before the try.
InTry(o, p) ==
  IF o = "scrapeUrl"
    THEN p \notin {"dirs", "launch"}
    ELSE p \notin {"manifest", "mkdir", "launch", "context"}

\* Where control is once the call has settled: back in the loop of scrapeUrls
\* that awaits it, or nowhere.
Settled_pc == IF caller = "scrapeUrls" THEN "resume" ELSE "done"

\* The await at pc throws: inside the try the exception propagates through
\* the finally block, otherwise the call rejects at once.
Fail(step) ==
  /\ error' = step
  /\ pc' = IF InTry(op, pc) THEN "finally" ELSE Settled_pc
  /\ outcome' = IF InTry(op, pc) THEN outcome ELSE "rejected"

\* The await at pc returns and the function goes on to `next`.
Goto(next) ==
  /\ pc' = next
  /\ UNCHANGED <<outcome, error>>

----------------------------------------------------------------------------
(* Entry points *)

CallScrapeUrl ==
  /\ pc = "idle"
  /\ UNCHANGED auxVars
  /\ \E url \in Urls : arg' = url
  /\ op' = "scrapeUrl"
  /\ Goto("dirs")
  /\ UNCHANGED <<result, sessionVars, navVars, events, cropVars, dismissVars, files>>

CallCrop ==
  /\ pc = "idle"
  /\ UNCHANGED auxVars
  /\ \E subfolder \in Subfolders : arg' = subfolder
  /\ op' = "crop"
  /\ Goto("manifest")
  /\ UNCHANGED <<result, sessionVars, navVars, events, cropVars, dismissVars, files>>

----------------------------------------------------------------------------
(* Before the browser exists *)

\* scrapeUrl: getDomainFolder(url); await ensureOutputDirectories(domainFolder)
EnsureOutputDirectories ==
  /\ pc = "dirs"
  /\ UNCHANGED auxVars
  /\ \/ Goto("launch")
     \/ Fail("ensureOutputDirectories")
  /\ UNCHANGED <<op, arg, result, sessionVars, navVars, events, cropVars, dismissVars, files>>

\* Variant of LoadManifest: no early return for an empty component list.
LoadManifest_NoEmptyCheck ==
  /\ pc = "manifest"
  /\ UNCHANGED auxVars
  /\ \/ \E parsed \in ParsedManifests :
          /\ manifest' = componentsOf(parsed)
          /\ Goto("mkdir")
     \/ /\ Fail("loadManifest")
        /\ UNCHANGED manifest
  /\ UNCHANGED <<op, arg, result, sessionVars, navVars, events, compIdx, cropLog,
                 cropSteps, analysisMade, dismissVars, files>>

\* crop: loadManifest; components = manifest.components ?? []; empty: return
LoadManifest ==
  /\ pc = "manifest"
  /\ UNCHANGED auxVars
  /\ \/ \E parsed \in ParsedManifests :
          LET components == componentsOf(parsed) IN
          /\ manifest' = components
          /\ IF Len(components) = 0
               THEN /\ pc' = Settled_pc /\ outcome' = "resolved" /\ UNCHANGED error
               ELSE Goto("mkdir")
     \/ /\ Fail("loadManifest")
        /\ UNCHANGED manifest
  /\ UNCHANGED <<op, arg, result, sessionVars, navVars, events, compIdx, cropLog,
                 cropSteps, analysisMade, dismissVars, files>>

\* crop: await mkdir(analysisDir, { recursive: true })
MkdirAnalysis ==
  /\ pc = "mkdir"
  /\ UNCHANGED auxVars
  /\ \/ /\ analysisMade' = TRUE
        /\ Goto("launch")
     \/ /\ Fail("mkdir")
        /\ UNCHANGED analysisMade
  /\ UNCHANGED <<op, arg, result, sessionVars, navVars, events, manifest, compIdx, cropLog,
                 cropSteps, dismissVars, files>>

----------------------------------------------------------------------------
(* Session *)

\* createStealthBrowser: chromium.launch
CreateStealthBrowser ==
  /\ pc = "launch"
  /\ UNCHANGED auxVars
  /\ \/ /\ browser' = "open"
        /\ openBrowsers' = openBrowsers + 1
        /\ hosted' = [contexts |-> 0, pages |-> 0]
        /\ Goto("context")
     \/ /\ Fail("launch")
        /\ UNCHANGED <<browser, openBrowsers, hosted>>
  /\ UNCHANGED <<op, arg, result, context, page, closeCalls, navVars, events, cropVars,
                 dismissVars, files>>

\* createStealthContext: browser.newContext, context.addInitScript
CreateStealthContext ==
  /\ pc = "context"
  /\ UNCHANGED auxVars
  /\ \/ /\ context' = "open"
        /\ hosted' = [hosted EXCEPT !.contexts = @ + 1]
        /\ Goto("newPage")
     \/ /\ Fail("createStealthContext")
        /\ UNCHANGED <<context, hosted>>
  /\ UNCHANGED <<op, arg, result, browser, page, closeCalls, openBrowsers, navVars, events, cropVars,
                 dismissVars, files>>

\* context.newPage()
NewPage ==
  /\ pc = "newPage"
  /\ UNCHANGED auxVars
  /\ \/ /\ page' = "open"
        /\ hosted' = [hosted EXCEPT !.pages = @ + 1]
        /\ Goto(IF op = "scrapeUrl" THEN "headers" ELSE "gotoPrimary")
     \/ /\ Fail("newPage")
        /\ UNCHANGED <<page, hosted>>
  /\ UNCHANGED <<op, arg, result, browser, context, closeCalls, openBrowsers, navVars, events, cropVars,
                 dismissVars, files>>

\* scrapeUrl: page.setExtraHTTPHeaders({ Referer })
SetExtraHTTPHeaders ==
  /\ pc = "headers"
  /\ UNCHANGED auxVars
  /\ \/ Goto("gotoPrimary")
     \/ Fail("setExtraHTTPHeaders")
  /\ UNCHANGED <<op, arg, result, sessionVars, navVars, events, cropVars, dismissVars, files>>

\* Variant of BrowserClose: the finally block closes the context only.
BrowserClose_ContextOnly ==
  /\ pc = "finally"
  /\ UNCHANGED auxVars
  /\ closeCalls' = closeCalls + 1
  /\ context' = IF context = "open" THEN "closed" ELSE context
  /\ page' = "none"
  /\ Goto("settle")
  /\ UNCHANGED <<op, arg, result, browser, openBrowsers, hosted, navVars, events, cropVars,
                 dismissVars, files>>

\* finally { await browser.close() }
BrowserClose ==
  /\ pc = "finally"
  /\ UNCHANGED auxVars
  /\ closeCalls' = closeCalls + 1
  /\ browser' = "closed"
  /\ openBrowsers' = IF browser = "open" THEN openBrowsers - 1 ELSE openBrowsers
  /\ context' = IF context = "open" THEN "closed" ELSE context
  /\ page' = "none"
  /\ Goto("settle")
  /\ UNCHANGED <<op, arg, result, hosted, navVars, events, cropVars, dismissVars, files>>

\* After the finally block the promise settles: it rejects with the
\* exception that was propagating, or resolves with the returned value.
Settle ==
  /\ pc = "settle"
  /\ UNCHANGED auxVars
  /\ pc' = Settled_pc
  /\ outcome' = IF error = "none" THEN "resolved" ELSE "rejected"
  /\ UNCHANGED <<op, arg, error, result, sessionVars, navVars, events, cropVars,
                 dismissVars, files>>

----------------------------------------------------------------------------
(* Navigation *)

\* Variant of GotoPrimary: no catch, a failed primary goto is thrown on.
GotoPrimary_NoCatch ==
  /\ pc = "gotoPrimary"
  /\ UNCHANGED auxVars
  /\ gotoLog' = Append(gotoLog, "networkidle")
  /\ \/ /\ navTier' = "primary"
        /\ Goto("loadState")
        /\ UNCHANGED gotoFailed
     \/ /\ gotoFailed' = gotoFailed \cup {"networkidle"}
        /\ Fail("gotoPrimary")
        /\ UNCHANGED navTier
  /\ UNCHANGED <<op, arg, result, sessionVars, graceMs, loadState, humanScroll, jitterMs,
                 events, cropVars, dismissVars, files>>

\* Variant of GotoPrimary: the fallback goto is issued after a success too.
GotoPrimary_AlwaysFallback ==
  /\ pc = "gotoPrimary"
  /\ UNCHANGED auxVars
  /\ gotoLog' = Append(gotoLog, "networkidle")
  /\ \/ /\ navTier' = "primary"
        /\ UNCHANGED gotoFailed
     \/ /\ gotoFailed' = gotoFailed \cup {"networkidle"}
        /\ UNCHANGED navTier
  /\ Goto("gotoFallback")
  /\ UNCHANGED <<op, arg, result, sessionVars, graceMs, loadState, humanScroll, jitterMs,
                 events, cropVars, dismissVars, files>>

\* try { page.goto(url, { waitUntil: 'networkidle', timeout: 15000 }) } catch
GotoPrimary ==
  /\ pc = "gotoPrimary"
  /\ UNCHANGED auxVars
  /\ gotoLog' = Append(gotoLog, "networkidle")
  /\ \/ /\ navTier' = "primary"
        /\ Goto("loadState")
        /\ UNCHANGED gotoFailed
     \/ /\ gotoFailed' = gotoFailed \cup {"networkidle"}
        /\ Goto("gotoFallback")
        /\ UNCHANGED navTier
  /\ UNCHANGED <<op, arg, result, sessionVars, graceMs, loadState, humanScroll, jitterMs,
                 events, cropVars, dismissVars, files>>

\* Variant of GotoFallback: a failed fallback goto is swallowed too.
GotoFallback_Swallow ==
  /\ pc = "gotoFallback"
  /\ UNCHANGED auxVars
  /\ gotoLog' = Append(gotoLog, "domcontentloaded")
  /\ \/ /\ navTier' = "fallback"
        /\ Goto("grace")
        /\ UNCHANGED gotoFailed
     \/ /\ gotoFailed' = gotoFailed \cup {"domcontentloaded"}
        /\ Goto("loadState")
        /\ UNCHANGED navTier
  /\ UNCHANGED <<op, arg, result, sessionVars, graceMs, loadState, humanScroll, jitterMs,
                 events, cropVars, dismissVars, files>>

\* catch { page.goto(url, { waitUntil: 'domcontentloaded', timeout: 30000 }) ...
GotoFallback ==
  /\ pc = "gotoFallback"
  /\ UNCHANGED auxVars
  /\ gotoLog' = Append(gotoLog, "domcontentloaded")
  /\ \/ /\ navTier' = "fallback"
        /\ Goto("grace")
        /\ UNCHANGED gotoFailed
     \/ /\ gotoFailed' = gotoFailed \cup {"domcontentloaded"}
        /\ Fail("gotoFallback")
        /\ UNCHANGED navTier
  /\ UNCHANGED <<op, arg, result, sessionVars, graceMs, loadState, humanScroll, jitterMs,
                 events, cropVars, dismissVars, files>>

\* ... page.waitForTimeout(5000) in scrapeUrl, page.waitForTimeout(3000) in crop
GraceWaitMs(o) == IF o = "scrapeUrl" THEN 5000 ELSE 3000

GraceWait ==
  /\ pc = "grace"
  /\ UNCHANGED auxVars
  /\ \/ /\ graceMs' = Append(graceMs, GraceWaitMs(op))
        /\ Goto("loadState")
     \/ /\ Fail("graceWait")
        /\ UNCHANGED graceMs
  /\ UNCHANGED <<op, arg, result, sessionVars, gotoLog, gotoFailed, navTier, loadState,
                 humanScroll, jitterMs, events, cropVars, dismissVars, files>>

\* Variant of WaitForLoadState: without the .catch, a time-out is thrown on.
WaitForLoadState_NoCatch ==
  /\ pc = "loadState"
  /\ UNCHANGED auxVars
  /\ \/ /\ loadState' = "ok"
        /\ Goto(IF op = "scrapeUrl" THEN "humanScroll" ELSE "dm_wait")
     \/ /\ loadState' = "timeout"
        /\ Fail("waitForLoadState")
  /\ UNCHANGED <<op, arg, result, sessionVars, gotoLog, gotoFailed, navTier, graceMs,
                 humanScroll, jitterMs, events, cropVars, dismissVars, files>>

\* page.waitForLoadState('load', { timeout: 10000 }).catch(() => log)
WaitForLoadState ==
  /\ pc = "loadState"
  /\ UNCHANGED auxVars
  /\ \E r \in {"ok", "timeout"} : loadState' = r
  /\ Goto(IF op = "scrapeUrl" THEN "humanScroll" ELSE "dm_wait")
  /\ UNCHANGED <<op, arg, result, sessionVars, gotoLog, gotoFailed, navTier, graceMs,
                 humanScroll, jitterMs, events, cropVars, dismissVars, files>>

\* scrapeUrl: page.evaluate(() => window.scrollTo(0, floor(random() * 500)))
HumanScroll ==
  /\ pc = "humanScroll"
  /\ UNCHANGED auxVars
  /\ \/ /\ \E r \in RandomSamples : humanScroll' = Append(humanScroll, randomScrollOffset(r))
        /\ Goto("jitter")
     \/ /\ Fail("humanScroll")
        /\ UNCHANGED humanScroll
  /\ UNCHANGED <<op, arg, result, sessionVars, gotoLog, gotoFailed, navTier, graceMs,
                 loadState, jitterMs, events, cropVars, dismissVars, files>>

\* scrapeUrl: page.waitForTimeout(3000 + Math.random() * 2000)
JitterWait ==
  /\ pc = "jitter"
  /\ UNCHANGED auxVars
  /\ \/ /\ \E r \in RandomSamples : jitterMs' = Append(jitterMs, randomExtraWait(r))
        /\ Goto("dm_wait")
     \/ /\ Fail("jitterWait")
        /\ UNCHANGED jitterMs
  /\ UNCHANGED <<op, arg, result, sessionVars, gotoLog, gotoFailed, navTier, graceMs,
                 loadState, humanScroll, events, cropVars, dismissVars, files>>

----------------------------------------------------------------------------
(* Readiness: dismissModals *)

\* await page.waitForTimeout(2000), before the scan and outside any try
DismissInitialWait ==
  /\ pc = "dm_wait"
  /\ UNCHANGED auxVars
  /\ events' = Append(events, "dismiss:start")
  /\ \/ Goto("dm_scan")
     \/ Fail("dismissModals")
  /\ UNCHANGED <<op, arg, result, sessionVars, navVars, cropVars, dismissVars, files>>

\* Variant of DismissProbe: the scan stops (break) after the first click.
DismissProbe_BreakOnMatch ==
  /\ pc = "dm_scan"
  /\ UNCHANGED auxVars
  /\ selIdx < NumSelectors
  /\ probes' = Append(probes, dismissSelectors[selIdx + 1])
  /\ selIdx' = selIdx + 1
  /\ \/ /\ UNCHANGED <<clicks, dismissed>>
        /\ Goto(IF selIdx + 1 = NumSelectors THEN "dm_escape" ELSE "dm_scan")
     \/ /\ clicks < MaxMatches
        /\ clicks' = clicks + 1
        /\ dismissed' = dismissed + 1
        /\ Goto("dm_escape")
  /\ UNCHANGED <<op, arg, result, sessionVars, navVars, events, cropVars, escapes,
                 reported, files>>

\* One iteration of `for (const selector of dismissSelectors)`: the whole
\* body is inside try/catch.  Either nothing is dismissed (isVisible returns
\* false or throws, or click throws), or the element is clicked, the counter
\* is incremented and the 1 s wait follows (a throw of the wait is caught).
DismissProbe ==
  /\ pc = "dm_scan"
  /\ UNCHANGED auxVars
  /\ selIdx < NumSelectors
  /\ probes' = Append(probes, dismissSelectors[selIdx + 1])
  /\ selIdx' = selIdx + 1
  /\ \/ UNCHANGED <<clicks, dismissed>>
     \/ /\ clicks < MaxMatches
        /\ clicks' = clicks + 1
        /\ dismissed' = dismissed + 1
  /\ Goto(IF selIdx + 1 = NumSelectors THEN "dm_escape" ELSE "dm_scan")
  /\ UNCHANGED <<op, arg, result, sessionVars, navVars, events, cropVars, escapes,
                 reported, files>>

\* Variant of DismissEscape: no try/catch around the key press.
DismissEscape_NoCatch ==
  /\ pc = "dm_escape"
  /\ UNCHANGED auxVars
  /\ \/ /\ escapes' = Append(escapes, "pressed")
        /\ dismissed' = dismissed + 1
        /\ Goto("dm_report")
     \/ /\ escapes' = Append(escapes, "threw")
        /\ UNCHANGED dismissed
        /\ Fail("escape")
  /\ UNCHANGED <<op, arg, result, sessionVars, navVars, events, cropVars, selIdx, probes,
                 clicks, reported, files>>

\* try { keyboard.press('Escape'); waitForTimeout(500); dismissed++ } catch {}
\* The press returns and so does the wait; the press returns and the wait
\* throws; or the press throws.  Nothing is rethrown.
DismissEscape ==
  /\ pc = "dm_escape"
  /\ UNCHANGED auxVars
  /\ \/ /\ escapes' = Append(escapes, "pressed")
        /\ dismissed' = dismissed + 1
     \/ /\ escapes' = Append(escapes, "pressed")
        /\ UNCHANGED dismissed
     \/ /\ escapes' = Append(escapes, "threw")
        /\ UNCHANGED dismissed
  /\ Goto("dm_report")
  /\ UNCHANGED <<op, arg, result, sessionVars, navVars, events, cropVars, selIdx, probes,
                 clicks, reported, files>>

\* Variant of DismissReport: preparePageForScreenshot leaves out the scroll sweep.
DismissReport_SkipLazy ==
  /\ pc = "dm_report"
  /\ UNCHANGED auxVars
  /\ reported' = dismissed
  /\ events' = Append(events, "dismiss:end")
  /\ Goto("images")
  /\ UNCHANGED <<op, arg, result, sessionVars, navVars, cropVars, selIdx, probes, clicks,
                 dismissed, escapes, files>>

\* if (dismissed > 0) log(`Dismissed ${dismissed} ...`) else log('No modals detected')
DismissReport ==
  /\ pc = "dm_report"
  /\ UNCHANGED auxVars
  /\ reported' = dismissed
  /\ events' = Append(events, "dismiss:end")
  /\ Goto("lazy")
  /\ UNCHANGED <<op, arg, result, sessionVars, navVars, cropVars, selIdx, probes, clicks,
                 dismissed, escapes, files>>

----------------------------------------------------------------------------
(* Readiness: triggerLazyLoadedImages, waitForImages *)

\* await page.evaluate(<scroll sweep>): no try/catch around it
TriggerLazyLoadedImages ==
  /\ pc = "lazy"
  /\ UNCHANGED auxVars
  /\ \/ /\ events' = events \o <<"lazy:start", "lazy:end">>
        /\ Goto("images")
     \/ /\ events' = Append(events, "lazy:start")
        /\ Fail("triggerLazyLoadedImages")
  /\ UNCHANGED <<op, arg, result, sessionVars, navVars, cropVars, dismissVars, files>>

\* try { await page.evaluate(<poll>) } catch { log }: returns in every case;
\* then scrapeUrl scrolls to the top and crop starts on the components
WaitForImages ==
  /\ pc = "images"
  /\ UNCHANGED auxVars
  /\ events' = events \o <<"images:start", "images:end">>
  /\ Goto(IF op = "scrapeUrl" THEN "scrollTop" ELSE "component")
  /\ UNCHANGED <<op, arg, result, sessionVars, navVars, cropVars, dismissVars, files>>

----------------------------------------------------------------------------
(* scrapeUrl: full-page capture *)

FilenameChars ==
  { "a", "b", "c", "d", "e", "f", "g", "h", "i", "j", "k", "l", "m", "n", "o", "p", "q",
    "r", "s", "t", "u", "v", "w", "x", "y", "z",
    "A", "B", "C", "D", "E", "F", "G", "H", "I", "J", "K", "L", "M", "N", "O", "P", "Q",
    "R", "S", "T", "U", "V", "W", "X", "Y", "Z",
    "0", "1", "2", "3", "4", "5", "6", "7", "8", "9", "_", "-" }

\* pathname.replace(/\//g, '_').replace(/[^a-zA-Z0-9_-]/g, '')
sanitizedPath(url) ==
  SelectSeq(ReplaceAll(url.pathname, "/", "_"), LAMBDA c : c \in FilenameChars)

\* join(cwd, 'output', domainFolder, 'html', `${filename}.html`)
htmlPathOf(url) ==
  [folder |-> getDomainFolder(url), dir |-> "html", stem |-> sanitizedPath(url),
   ext |-> ".html"]

\* join(cwd, 'output', domainFolder, 'screenshots', `${filename}.png`)
screenshotPathOf(url) ==
  [folder |-> getDomainFolder(url), dir |-> "screenshots", stem |-> sanitizedPath(url),
   ext |-> ".png"]

\* page.evaluate(() => window.scrollTo(0, 0))
ScrollTop ==
  /\ pc = "scrollTop"
  /\ UNCHANGED auxVars
  /\ \/ /\ events' = Append(events, "scrollTop")
        /\ Goto("settleWait")
     \/ /\ Fail("scrollTop")
        /\ UNCHANGED events
  /\ UNCHANGED <<op, arg, result, sessionVars, navVars, cropVars, dismissVars, files>>

\* page.waitForTimeout(1000)
SettleWait ==
  /\ pc = "settleWait"
  /\ UNCHANGED auxVars
  /\ \/ /\ events' = Append(events, "settleWait")
        /\ Goto("content")
     \/ /\ Fail("settleWait")
        /\ UNCHANGED events
  /\ UNCHANGED <<op, arg, result, sessionVars, navVars, cropVars, dismissVars, files>>

\* generateFilename(url); const html = await page.content()
PageContent ==
  /\ pc = "content"
  /\ UNCHANGED auxVars
  /\ \/ /\ events' = Append(events, "content")
        /\ Goto("writeHtml")
     \/ /\ Fail("content")
        /\ UNCHANGED events
  /\ UNCHANGED <<op, arg, result, sessionVars, navVars, cropVars, dismissVars, files>>

\* Variant of WriteHtml: a failed write is logged and the capture goes on.
WriteHtml_FailureIgnored ==
  /\ pc = "writeHtml"
  /\ UNCHANGED auxVars
  /\ \/ /\ files' = files \cup {htmlPathOf(arg)}
        /\ events' = Append(events, "html")
     \/ UNCHANGED <<files, events>>
  /\ Goto("screenshot")
  /\ UNCHANGED <<op, arg, result, sessionVars, navVars, cropVars, dismissVars>>

\* await writeFile(htmlPath, html, 'utf-8')
WriteHtml ==
  /\ pc = "writeHtml"
  /\ UNCHANGED auxVars
  /\ \/ /\ files' = files \cup {htmlPathOf(arg)}
        /\ events' = Append(events, "html")
        /\ Goto("screenshot")
     \/ /\ Fail("writeHtml")
        /\ UNCHANGED <<files, events>>
  /\ UNCHANGED <<op, arg, result, sessionVars, navVars, cropVars, dismissVars>>

\* await page.screenshot({ path: screenshotPath, fullPage: true })
Screenshot ==
  /\ pc = "screenshot"
  /\ UNCHANGED auxVars
  /\ \/ /\ files' = files \cup {screenshotPathOf(arg)}
        /\ events' = Append(events, "screenshot")
        /\ Goto("contextClose")
     \/ /\ Fail("screenshot")
        /\ UNCHANGED <<files, events>>
  /\ UNCHANGED <<op, arg, result, sessionVars, navVars, cropVars, dismissVars>>

\* await context.close()
ContextClose ==
  /\ pc = "contextClose"
  /\ UNCHANGED auxVars
  /\ \/ /\ context' = "closed"
        /\ Goto("return")
     \/ /\ Fail("contextClose")
        /\ UNCHANGED context
  /\ UNCHANGED <<op, arg, result, browser, page, closeCalls, openBrowsers, hosted, navVars,
                 events, cropVars, dismissVars, files>>

\* return { url, htmlPath, screenshotPath, timestamp }: the finally block
\* runs before the promise resolves with it
ReturnResult ==
  /\ pc = "return"
  /\ UNCHANGED auxVars
  /\ result' = [url |-> arg, htmlPath |-> htmlPathOf(arg),
                screenshotPath |-> screenshotPathOf(arg)]
  /\ Goto("finally")
  /\ UNCHANGED <<op, arg, sessionVars, navVars, events, cropVars, dismissVars, files>>

----------------------------------------------------------------------------
(* crop: the component loop *)

\* join(analysisDir, `${name}.png`)
pngPathOf(subfolder, name) ==
  [folder |-> subfolder, dir |-> "analysis", stem |-> <<name>>, ext |-> ".png"]

\* locator.waitFor({ state: 'visible', timeout: 5000 })
VisibleTimeoutMs == 5000
\* page.waitForTimeout(500)
ComponentSettleMs == 500

\* the awaited calls of the try block in the component loop
ComponentSteps ==
  << [call |-> "waitFor", ms |-> VisibleTimeoutMs],
     [call |-> "scrollIntoViewIfNeeded", ms |-> 0],
     [call |-> "waitForTimeout", ms |-> ComponentSettleMs],
     [call |-> "screenshot", ms |-> 0] >>

\* The calls issued for one component when the n-th of them throws (n = 0:
\* none throws): those up to the n-th, the rest being skipped by the throw.
CropAttempt(name, n) ==
  [i \in 1..(IF n = 0 THEN Len(ComponentSteps) ELSE n) |->
     [name |-> name, call |-> ComponentSteps[i].call, ms |-> ComponentSteps[i].ms,
      ok |-> i # n]]

\* Variant of CropComponent: a throw of scrollIntoViewIfNeeded is ignored and
\* the screenshot is taken all the same.
CropComponent_ScrollFailureIgnored ==
  /\ pc = "component"
  /\ UNCHANGED auxVars
  /\ compIdx < Len(manifest)
  /\ LET component == manifest[compIdx + 1] IN
       \/ /\ component.cssSelector = ""
          /\ cropLog' = Append(cropLog, "noSelector")
          /\ UNCHANGED <<cropSteps, files, events>>
       \/ /\ component.cssSelector # ""
          /\ cropSteps' = cropSteps \o CropAttempt(component.name, 1)
          /\ cropLog' = Append(cropLog, "skipped")
          /\ events' = Append(events, "skip")
          /\ UNCHANGED files
       \/ /\ component.cssSelector = "body"
          /\ \E n \in {0, 2} :
               cropSteps' = cropSteps \o
                 [i \in 1..Len(ComponentSteps) |->
                    [name |-> component.name, call |-> ComponentSteps[i].call,
                     ms |-> ComponentSteps[i].ms, ok |-> i # n]]
          /\ cropLog' = Append(cropLog, "saved")
          /\ files' = files \cup {pngPathOf(arg, component.name)}
          /\ events' = Append(events, "crop")
  /\ compIdx' = compIdx + 1
  /\ Goto(IF compIdx + 1 = Len(manifest) THEN "finally" ELSE "component")
  /\ UNCHANGED <<op, arg, result, sessionVars, navVars, manifest, analysisMade,
                 dismissVars>>

\* Variant of CropComponent: a failing component ends the loop (break).
CropComponent_BreakOnFailure ==
  /\ pc = "component"
  /\ UNCHANGED auxVars
  /\ compIdx < Len(manifest)
  /\ compIdx' = compIdx + 1
  /\ LET component == manifest[compIdx + 1] IN
       \/ /\ component.cssSelector = ""
          /\ cropLog' = Append(cropLog, "noSelector")
          /\ UNCHANGED cropSteps
          /\ Goto(IF compIdx + 1 = Len(manifest) THEN "finally" ELSE "component")
          /\ UNCHANGED <<files, events>>
       \/ /\ component.cssSelector # ""
          /\ \E n \in 1..Len(ComponentSteps) :
               /\ component.cssSelector = ".missing" => n = 1
               /\ cropSteps' = cropSteps \o CropAttempt(component.name, n)
          /\ cropLog' = Append(cropLog, "skipped")
          /\ events' = Append(events, "skip")
          /\ Goto("finally")
          /\ UNCHANGED files
       \/ /\ component.cssSelector = "body"
          /\ cropSteps' = cropSteps \o CropAttempt(component.name, 0)
          /\ cropLog' = Append(cropLog, "saved")
          /\ files' = files \cup {pngPathOf(arg, component.name)}
          /\ events' = Append(events, "crop")
          /\ Goto(IF compIdx + 1 = Len(manifest) THEN "finally" ELSE "component")
  /\ UNCHANGED <<op, arg, result, sessionVars, navVars, manifest, analysisMade,
                 dismissVars>>

\* Variant of CropComponent: no try/catch in the loop body.
CropComponent_NoCatch ==
  /\ pc = "component"
  /\ UNCHANGED auxVars
  /\ compIdx < Len(manifest)
  /\ compIdx' = compIdx + 1
  /\ LET component == manifest[compIdx + 1] IN
       \/ /\ component.cssSelector = ""
          /\ cropLog' = Append(cropLog, "noSelector")
          /\ UNCHANGED cropSteps
          /\ Goto(IF compIdx + 1 = Len(manifest) THEN "finally" ELSE "component")
          /\ UNCHANGED <<files, events>>
       \/ /\ component.cssSelector # ""
          /\ \E n \in 1..Len(ComponentSteps) :
               /\ component.cssSelector = ".missing" => n = 1
               /\ cropSteps' = cropSteps \o CropAttempt(component.name, n)
          /\ cropLog' = Append(cropLog, "skipped")
          /\ events' = Append(events, "skip")
          /\ Fail("component")
          /\ UNCHANGED files
       \/ /\ component.cssSelector = "body"
          /\ cropSteps' = cropSteps \o CropAttempt(component.name, 0)
          /\ cropLog' = Append(cropLog, "saved")
          /\ files' = files \cup {pngPathOf(arg, component.name)}
          /\ events' = Append(events, "crop")
          /\ Goto(IF compIdx + 1 = Len(manifest) THEN "finally" ELSE "component")
  /\ UNCHANGED <<op, arg, result, sessionVars, navVars, manifest, analysisMade,
                 dismissVars>>

\* One iteration of `for (const component of components)`.  No cssSelector:
\* continue.  Otherwise try { waitFor visible 5 s; scrollIntoViewIfNeeded;
\* waitForTimeout(500); screenshot } catch { warn }.  A selector that matches
\* nothing never becomes visible; one that matches may still time out or throw.
CropComponent ==
  /\ pc = "component"
  /\ UNCHANGED auxVars
  /\ compIdx < Len(manifest)
  /\ LET component == manifest[compIdx + 1] IN
       \/ /\ component.cssSelector = ""
          /\ cropLog' = Append(cropLog, "noSelector")
          /\ UNCHANGED cropSteps
          /\ UNCHANGED <<files, events>>
       \/ /\ component.cssSelector # ""
          /\ \E n \in 1..Len(ComponentSteps) :
               /\ component.cssSelector = ".missing" => n = 1
               /\ cropSteps' = cropSteps \o CropAttempt(component.name, n)
          /\ cropLog' = Append(cropLog, "skipped")
          /\ events' = Append(events, "skip")
          /\ UNCHANGED files
       \/ /\ component.cssSelector = "body"
          /\ cropSteps' = cropSteps \o CropAttempt(component.name, 0)
          /\ cropLog' = Append(cropLog, "saved")
          /\ files' = files \cup {pngPathOf(arg, component.name)}
          /\ events' = Append(events, "crop")
  /\ compIdx' = compIdx + 1
  /\ Goto(IF compIdx + 1 = Len(manifest) THEN "finally" ELSE "component")
  /\ UNCHANGED <<op, arg, result, sessionVars, navVars, manifest, analysisMade,
                 dismissVars>>

----------------------------------------------------------------------------
(* scrapeUrls: the sequential batch *)

RECURSIVE SeqsUpTo(_, _)
SeqsUpTo(S, n) ==
  IF n = 0 THEN {<<>>}
  ELSE LET shorter == SeqsUpTo(S, n - 1)
       IN  shorter \cup { Append(q, x) : q \in shorter, x \in S }

\* the url lists scrapeUrls is called with
UrlLists == SeqsUpTo(Urls, MaxBatch)

\* const result = await scrapeUrl(url): a fresh call of scrapeUrl, with its
\* own locals, browser and page; the filesystem is the same.
StartScrape(i) ==
  /\ op' = "scrapeUrl"
  /\ arg' = urls'[i]
  /\ urlIdx' = i
  /\ pc' = "dirs"
  /\ outcome' = "pending" /\ error' = "none" /\ result' = NoResult
  /\ browser' = "none" /\ context' = "none" /\ page' = "none" /\ closeCalls' = 0
  /\ UNCHANGED <<openBrowsers, hosted>>
  /\ gotoLog' = <<>> /\ gotoFailed' = {} /\ navTier' = "none" /\ graceMs' = <<>>
  /\ loadState' = "none" /\ humanScroll' = <<>> /\ jitterMs' = <<>>
  /\ events' = <<>>
  /\ selIdx' = 0 /\ probes' = <<>> /\ clicks' = 0 /\ dismissed' = 0 /\ escapes' = <<>>
  /\ reported' = -1

\* return results
ReturnResults ==
  /\ pc' = "done"
  /\ batchOutcome' = "resolved"
  /\ batchValue' = {results'}
  /\ UNCHANGED <<arg, urlIdx, outcome, error, result, sessionVars, navVars, events,
                 dismissVars, batchError>>

\* scrapeUrls(urls): results = []; the loop starts with urls[0], or, for an
\* empty list, falls through to return results.
CallScrapeUrls ==
  /\ pc = "idle"
  /\ caller' = "scrapeUrls"
  /\ \E us \in UrlLists : urls' = us
  /\ results' = <<>>
  /\ IF urls' = <<>>
       THEN /\ op' = "scrapeUrls"
            /\ ReturnResults
            /\ UNCHANGED batchLog
       ELSE /\ StartScrape(1)
            /\ batchLog' = <<[ev |-> "start", url |-> urls'[1]]>>
            /\ UNCHANGED <<batchOutcome, batchError, batchValue>>
  /\ UNCHANGED <<cropVars, files, readinessVars, captureVars, cliVars,
                 offlineVars>>

\* Variant of ScrapeUrlsResume: results.unshift(result).
ScrapeUrlsResume_Unshift ==
  /\ pc = "resume"
  /\ UNCHANGED <<caller, urls, cropVars, files, readinessVars, captureVars, cliVars,
                 offlineVars>>
  /\ IF outcome = "resolved"
       THEN /\ results' = <<result>> \o results
            /\ IF urlIdx < Len(urls)
                 THEN /\ StartScrape(urlIdx + 1)
                      /\ batchLog' = batchLog \o <<[ev |-> "settle", url |-> arg],
                                                   [ev |-> "start", url |-> urls[urlIdx + 1]]>>
                      /\ UNCHANGED <<batchOutcome, batchError, batchValue>>
                 ELSE /\ batchLog' = Append(batchLog, [ev |-> "settle", url |-> arg])
                      /\ UNCHANGED op
                      /\ ReturnResults
       ELSE /\ batchLog' = Append(batchLog, [ev |-> "settle", url |-> arg])
            /\ batchOutcome' = "rejected"
            /\ batchError' = error
            /\ pc' = "done"
            /\ UNCHANGED <<op, arg, urlIdx, outcome, error, result, sessionVars, navVars,
                           events, dismissVars, results, batchValue>>

\* Variant of ScrapeUrlsResume: the catch block logs and goes on with the
\* next url instead of rethrowing.
ScrapeUrlsResume_ContinueOnError ==
  /\ pc = "resume"
  /\ UNCHANGED <<caller, urls, cropVars, files, readinessVars, captureVars, cliVars,
                 offlineVars>>
  /\ results' = IF outcome = "resolved" THEN Append(results, result) ELSE results
  /\ IF urlIdx < Len(urls)
       THEN /\ StartScrape(urlIdx + 1)
            /\ batchLog' = batchLog \o <<[ev |-> "settle", url |-> arg],
                                         [ev |-> "start", url |-> urls[urlIdx + 1]]>>
            /\ UNCHANGED <<batchOutcome, batchError, batchValue>>
       ELSE /\ batchLog' = Append(batchLog, [ev |-> "settle", url |-> arg])
            /\ UNCHANGED op
            /\ ReturnResults

\* The awaited scrapeUrl(url) has settled.  Resolved: results.push(result)
\* and the loop goes on with the next url, or returns results after the last
\* one.  Rejected: the catch block logs the error and rethrows it, which
\* rejects scrapeUrls; the local array results is dropped.
ScrapeUrlsResume ==
  /\ pc = "resume"
  /\ UNCHANGED <<caller, urls, cropVars, files, readinessVars, captureVars, cliVars,
                 offlineVars>>
  /\ IF outcome = "resolved"
       THEN /\ results' = Append(results, result)
            /\ IF urlIdx < Len(urls)
                 THEN /\ StartScrape(urlIdx + 1)
                      /\ batchLog' = batchLog \o <<[ev |-> "settle", url |-> arg],
                                                   [ev |-> "start", url |-> urls[urlIdx + 1]]>>
                      /\ UNCHANGED <<batchOutcome, batchError, batchValue>>
                 ELSE /\ batchLog' = Append(batchLog, [ev |-> "settle", url |-> arg])
                      /\ UNCHANGED op
                      /\ ReturnResults
       ELSE /\ batchLog' = Append(batchLog, [ev |-> "settle", url |-> arg])
            /\ batchOutcome' = "rejected"
            /\ batchError' = error
            /\ pc' = "done"
            /\ UNCHANGED <<op, arg, urlIdx, outcome, error, result, sessionVars, navVars,
                           events, dismissVars, results, batchValue>>

----------------------------------------------------------------------------
(* Specification *)

Next ==
  \/ CallScrapeUrl \/ CallCrop \/ CallScrapeUrls \/ ScrapeUrlsResume
  \/ EnsureOutputDirectories \/ LoadManifest \/ MkdirAnalysis
  \/ CreateStealthBrowser \/ CreateStealthContext \/ NewPage \/ SetExtraHTTPHeaders
  \/ GotoPrimary \/ GotoFallback \/ GraceWait \/ WaitForLoadState
  \/ HumanScroll \/ JitterWait
  \/ DismissInitialWait \/ DismissProbe \/ DismissEscape \/ DismissReport
  \/ TriggerLazyLoadedImages \/ WaitForImages
  \/ ScrollTop \/ SettleWait \/ PageContent \/ WriteHtml \/ Screenshot
  \/ ContextClose \/ ReturnResult
  \/ CropComponent
  \/ BrowserClose \/ Settle

Spec == Init /\ [][Next]_vars

----------------------------------------------------------------------------
(* The readiness functions called on their own *)

\* what triggerLazyLoadedImages and waitForImages leave alone
pipelineVars ==
  <<arg, result, sessionVars, navVars, events, cropVars, dismissVars, files, batchVars,
    captureVars, cliVars, offlineVars>>

\* const scrollStep = 500
ScrollStep == 500
\* document.documentElement.scrollHeight when the sweep starts
PageHeights == {0, 400, 500, 1300}
\* by how much the scroll height has grown when it is measured again
PageGrowths == {0, 200, 500, 700}

\* setTimeout(checkImages, 200)
PollIntervalMs == 200
\* timeoutMs: number = 10000
DefaultTimeoutMs == 10000
\* preparePageForScreenshot: waitForImages(page, 15000)
PipelineTimeoutMs == 15000
Timeouts == {0, 300, 400, DefaultTimeoutMs, PipelineTimeoutMs}

\* triggerLazyLoadedImages(page): scrollHeight = getScrollHeight();
\* currentPosition = 0
CallTriggerLazyLoadedImages ==
  /\ pc = "idle"
  /\ op' = "triggerLazyLoadedImages"
  /\ \E h \in PageHeights : remaining' = h
  /\ Goto("sweep")
  /\ UNCHANGED <<pipelineVars, imageVars>>

\* One turn of while (currentPosition < scrollHeight): scrollTo,
\* currentPosition += scrollStep, wait 100 ms, scrollHeight = getScrollHeight().
\* The page decides how much it has grown in the meantime.
SweepIteration ==
  /\ pc = "sweep"
  /\ remaining > 0
  /\ \E g \in PageGrowths :
       /\ remaining - ScrollStep + g <= MaxRemaining
       /\ remaining' = remaining - ScrollStep + g
  /\ Goto("sweep")
  /\ UNCHANGED <<op, pipelineVars, imageVars>>

\* The loop condition is false: scrollTo(0, scrollHeight), wait 500 ms, and
\* the evaluation returns.
SweepFinish ==
  /\ pc = "sweep"
  /\ ~(remaining > 0)
  /\ pc' = "done" /\ outcome' = "resolved"
  /\ UNCHANGED <<op, error, pipelineVars, readinessVars>>

\* page.evaluate rejects (the page navigated or was closed): nothing catches it.
SweepThrows ==
  /\ pc = "sweep"
  /\ pc' = "done" /\ outcome' = "rejected" /\ error' = "evaluate"
  /\ UNCHANGED <<op, pipelineVars, readinessVars>>

\* what the sweep inside scrapeUrl leaves alone
sweepFrame ==
  <<op, arg, result, sessionVars, navVars, cropVars, dismissVars, files, batchVars,
    imageVars, captureVars, cliVars, offlineVars>>

\* preparePageForScreenshot -> triggerLazyLoadedImages(page): the evaluation
\* starts, scrollHeight = getScrollHeight(), currentPosition = 0
LazySweepStart ==
  /\ pc = "lazy"
  /\ \E h \in PageHeights : remaining' = h
  /\ events' = Append(events, "lazy:start")
  /\ Goto("lazy_sweep")
  /\ UNCHANGED sweepFrame

\* one turn of while (currentPosition < scrollHeight) inside the pipeline
LazySweepIteration ==
  /\ pc = "lazy_sweep"
  /\ remaining > 0
  /\ \E g \in PageGrowths :
       /\ remaining - ScrollStep + g <= MaxRemaining
       /\ remaining' = remaining - ScrollStep + g
  /\ Goto("lazy_sweep")
  /\ UNCHANGED <<events, sweepFrame>>

\* the loop condition is false: the evaluation returns and waitForImages is next
LazySweepFinish ==
  /\ pc = "lazy_sweep"
  /\ ~(remaining > 0)
  /\ remaining' = 0
  /\ events' = Append(events, "lazy:end")
  /\ Goto("images")
  /\ UNCHANGED sweepFrame

\* page.evaluate rejects: no try/catch in triggerLazyLoadedImages, so the
\* exception reaches the finally block of scrapeUrl
LazySweepThrows ==
  /\ pc = "lazy_sweep"
  /\ remaining' = 0
  /\ Fail("triggerLazyLoadedImages")
  /\ UNCHANGED <<events, sweepFrame>>

\* One call of scrapeUrl with the scroll sweep of its readiness stage taken
\* turn by turn.
NextSettling ==
  \/ CallScrapeUrl
  \/ EnsureOutputDirectories
  \/ CreateStealthBrowser \/ CreateStealthContext \/ NewPage \/ SetExtraHTTPHeaders
  \/ GotoPrimary \/ GotoFallback \/ GraceWait \/ WaitForLoadState
  \/ HumanScroll \/ JitterWait
  \/ DismissInitialWait \/ DismissProbe \/ DismissEscape \/ DismissReport
  \/ LazySweepStart \/ LazySweepIteration \/ LazySweepFinish \/ LazySweepThrows
  \/ WaitForImages
  \/ ScrollTop \/ SettleWait \/ PageContent \/ WriteHtml \/ Screenshot
  \/ ContextClose \/ ReturnResult
  \/ BrowserClose \/ Settle

\* Every await of the call returns or throws at some time: the scheduler
\* never leaves an enabled step untaken for ever.
SpecSettling == Init /\ [][NextSettling]_vars /\ WF_vars(NextSettling)

ImagesLine(line) == [line |-> line, loaded |-> 0, visible |-> 0]

\* an img element as checkImages sees it: computed style, bounding box and
\* loading state
Img(display, visibility, opacity, width, height, complete, naturalHeight) ==
  [display |-> display, visibility |-> visibility, opacity |-> opacity,
   width |-> width, height |-> height,
   complete |-> complete, naturalHeight |-> naturalHeight]

\* the images a page starts with
PageImages ==
  { Img("block", "visible", "1", 10, 10, FALSE, 0),
    Img("block", "visible", "1", 10, 10, TRUE, 10),
    Img("block", "visible", "1", 10, 10, TRUE, 0),
    Img("block", "visible", "0.5", 10, 0, FALSE, 0),
    Img("none", "visible", "1", 0, 0, FALSE, 0),
    Img("block", "hidden", "1", 10, 10, FALSE, 0),
    Img("block", "visible", "0", 10, 10, FALSE, 0),
    Img("block", "visible", "1", 0, 0, FALSE, 0) }

\* what an image can have become 200 ms later: an image that was still
\* loading may have loaded or failed
Progress(img) ==
  IF img.complete THEN {img}
  ELSE {img, [img EXCEPT !.complete = TRUE, !.naturalHeight = 10],
        [img EXCEPT !.complete = TRUE]}

\* Variant of isVisible: the opacity is not looked at.
isVisible_IgnoresOpacity(img) ==
  /\ img.display # "none"
  /\ img.visibility # "hidden"
  /\ (img.width > 0 \/ img.height > 0)

\* images.filter(img => style.display !== 'none' && style.visibility !==
\* 'hidden' && style.opacity !== '0' && (rect.width > 0 || rect.height > 0))
isVisible(img) ==
  /\ img.display # "none"
  /\ img.visibility # "hidden"
  /\ img.opacity # "0"
  /\ (img.width > 0 \/ img.height > 0)

\* img.complete && img.naturalHeight > 0
isLoaded(img) == img.complete /\ img.naturalHeight > 0

\* waitForImages(page, timeoutMs): startTime = Date.now(); checkImages() is
\* called at once.
CallWaitForImages ==
  /\ pc = "idle"
  /\ op' = "waitForImages"
  /\ \E t \in Timeouts : timeoutMs' = t
  /\ \E imgs \in SeqsUpTo(PageImages, MaxImages) : images' = imgs
  /\ visible' = 0 /\ loaded' = 0
  /\ elapsed' = 0 /\ polls' = 0
  /\ imagesLog' = <<ImagesLine("Waiting for images to load...")>>
  /\ Goto("poll")
  /\ UNCHANGED <<pipelineVars, remaining>>

\* checkImages(): resolve when there is no visible image, when all are
\* loaded, or when Date.now() - startTime > timeout; otherwise
\* setTimeout(checkImages, 200).
CheckImages ==
  /\ pc = "poll"
  /\ polls' = polls + 1
  /\ LET visibleImages == SelectSeq(images, isVisible)
         allLoaded     == \A i \in 1..Len(visibleImages) : isLoaded(visibleImages[i])
         loadedCount   == Len(SelectSeq(visibleImages, isLoaded))
     IN  /\ visible' = Len(visibleImages)
         /\ loaded' = loadedCount
         /\ IF Len(visibleImages) = 0
              THEN /\ imagesLog' = Append(imagesLog, ImagesLine("Images loaded successfully"))
                   /\ pc' = "done" /\ outcome' = "resolved"
              ELSE IF allLoaded \/ elapsed > timeoutMs
                THEN /\ imagesLog' = imagesLog \o
                           <<[line |-> "Loaded", loaded |-> loadedCount,
                              visible |-> Len(visibleImages)],
                             ImagesLine("Images loaded successfully")>>
                     /\ pc' = "done" /\ outcome' = "resolved"
                ELSE /\ pc' = "timer"
                     /\ UNCHANGED <<imagesLog, outcome>>
  /\ UNCHANGED <<op, error, pipelineVars, remaining, timeoutMs, elapsed, images>>

\* The page between two polls: every image stays as it is or finishes loading.
RECURSIVE ProgressOf(_)
ProgressOf(imgs) ==
  IF imgs = <<>> THEN {<<>>}
  ELSE {<<h>> \o t : h \in Progress(Head(imgs)), t \in ProgressOf(Tail(imgs))}
ImagesProgress == \E next \in ProgressOf(images) : images' = next

\* Variant of PollTimer: the next poll comes after two intervals.
PollTimer_DoubleInterval ==
  /\ pc = "timer"
  /\ elapsed' = elapsed + 2 * PollIntervalMs
  /\ ImagesProgress
  /\ Goto("poll")
  /\ UNCHANGED <<op, pipelineVars, remaining, timeoutMs, polls, visible, loaded, imagesLog>>

\* The timer set by setTimeout(checkImages, 200) fires, 200 ms after it was
\* set; images may have finished loading in the meantime.
PollTimer ==
  /\ pc = "timer"
  /\ elapsed' = elapsed + PollIntervalMs
  /\ ImagesProgress
  /\ Goto("poll")
  /\ UNCHANGED <<op, pipelineVars, remaining, timeoutMs, polls, visible, loaded, imagesLog>>

\* Variant of ImagesEvaluateThrows: no try/catch around the evaluation.
ImagesEvaluateThrows_NoCatch ==
  /\ pc \in {"poll", "timer"}
  /\ pc' = "done" /\ outcome' = "rejected" /\ error' = "evaluate"
  /\ UNCHANGED <<op, pipelineVars, readinessVars>>

\* page.evaluate rejects: catch (error) { console.log(...) } and
\* waitForImages returns.
ImagesEvaluateThrows ==
  /\ pc \in {"poll", "timer"}
  /\ imagesLog' = Append(imagesLog, ImagesLine("Image loading check completed with timeout"))
  /\ pc' = "done" /\ outcome' = "resolved"
  /\ UNCHANGED <<op, error, pipelineVars, remaining, timeoutMs, elapsed, polls, images,
                 visible, loaded>>

NextReadiness ==
  \/ CallTriggerLazyLoadedImages \/ SweepIteration \/ SweepFinish \/ SweepThrows
  \/ CallWaitForImages \/ CheckImages \/ PollTimer \/ ImagesEvaluateThrows

\* The event loop runs the next timer callback or continuation whenever
\* there is one.
SpecReadiness == Init /\ [][NextReadiness]_vars /\ WF_vars(NextReadiness)

----------------------------------------------------------------------------
(* File names: generateFilename and the clock *)

MsPerDay == 86400000

\* the instant d milliseconds after t
AddMs(t, d) ==
  [day |-> t.day + (t.ms + d) \div MsPerDay, ms |-> (t.ms + d) % MsPerDay]

Before(t1, t2) == t1.day < t2.day \/ (t1.day = t2.day /\ t1.ms < t2.ms)

DigitChars == <<"0", "1", "2", "3", "4", "5", "6", "7", "8", "9">>

\* Variant of Pad: the number is written without leading zeros.
RECURSIVE Pad_NoLeadingZeros(_, _)
Pad_NoLeadingZeros(n, width) ==
  IF n < 10 THEN <<DigitChars[n + 1]>>
  ELSE Pad_NoLeadingZeros(n \div 10, width) \o <<DigitChars[(n % 10) + 1]>>

\* n in decimal, zero-padded to width digits
RECURSIVE Pad(_, _)
Pad(n, width) ==
  IF width = 0 THEN <<>>
  ELSE Pad(n \div 10, width - 1) \o <<DigitChars[(n % 10) + 1]>>

\* year, month and day of month of a day number, in the proleptic Gregorian
\* calendar, for days from 0000-03-01 on
CivilFromDays(day) ==
  LET z   == day + 719468
      era == z \div 146097
      doe == z % 146097
      yoe == (doe - doe \div 1460 + doe \div 36524 - doe \div 146096) \div 365
      doy == doe - (365 * yoe + yoe \div 4 - yoe \div 100)
      mp  == (5 * doy + 2) \div 153
      m   == IF mp < 10 THEN mp + 3 ELSE mp - 9
  IN  [year  |-> yoe + era * 400 + (IF m <= 2 THEN 1 ELSE 0),
       month |-> m,
       date  |-> doy - (153 * mp + 2) \div 5 + 1]

\* Date.prototype.toISOString: YYYY-MM-DDTHH:mm:ss.sssZ, and a sign with six
\* digits for a year after 9999
toISOString(t) ==
  LET c == CivilFromDays(t.day)
      yyyy == IF c.year <= 9999 THEN Pad(c.year, 4) ELSE <<"+">> \o Pad(c.year, 6)
  IN  yyyy \o <<"-">> \o Pad(c.month, 2) \o <<"-">> \o Pad(c.date, 2) \o <<"T">>
        \o Pad(t.ms \div 3600000, 2) \o <<":">> \o Pad((t.ms \div 60000) % 60, 2) \o <<":">>
        \o Pad((t.ms \div 1000) % 60, 2) \o <<".">> \o Pad(t.ms % 1000, 3) \o <<"Z">>

\* generateFilename(url) when new Date() is t:
\* `${path}_${toISOString().replace(/[:.]/g, '-')}`
generateFilename(url, t) ==
  sanitizedPath(url) \o <<"_">> \o ReplaceAll(ReplaceAll(toISOString(t), ":", "-"), ".", "-")

\* join(cwd, 'output', domainFolder, 'html' | 'screenshots', filename + ext)
artifactPath(url, dir, filename, ext) ==
  [folder |-> getDomainFolder(url), dir |-> dir, stem |-> filename, ext |-> ext]

\* the urls of the calls that run side by side: one on a host of its own, and
\* two on one host whose paths differ only in a character that
\* generateFilename drops
CaptureUrls ==
  { [hostname |-> <<"w", ".", "a", ".", "b">>, pathname |-> <<"/", "p">>],
    [hostname |-> <<"a", ".", "b">>, pathname |-> <<"/", "p", ".", "q">>],
    [hostname |-> <<"a", ".", "b">>, pathname |-> <<"/", "p", "q">>] }

\* page.waitForTimeout(1000)
SettleWaitMs == 1000
\* by how much the clock is seen to have advanced
ClockSteps == {1, SettleWaitMs}

\* The clock is seen to have advanced while some call is at one of the
\* awaits in `at`.
ClockAdvancesWhile(at) ==
  /\ delays < MaxDelays
  /\ \E k \in TaskIds : tasks[k].pc \in at
  /\ delays' = delays + 1
  /\ \E d \in ClockSteps : now' = AddMs(now, d)
  /\ UNCHANGED <<op, pc, outcome, error, arg, result, sessionVars, navVars, events,
                 cropVars, dismissVars, files, batchVars, readinessVars, tasks, writes,
                 cliVars, offlineVars>>

\* Time passes while some call has yet to read the clock for its file name.
ClockAdvances == ClockAdvancesWhile({"idle", "wait"})

\* Time passes while a call has yet to read the clock, for its file name or
\* for the timestamp of its result.
ClockTicks == ClockAdvancesWhile({"idle", "wait", "html", "screenshot", "close"})

taskFrame ==
  <<op, pc, outcome, error, arg, result, sessionVars, navVars, events, cropVars,
    dismissVars, files, batchVars, readinessVars, now, delays, cliVars, offlineVars>>

\* A call scrapeUrl(url) has come as far as await page.waitForTimeout(1000):
\* the timer is set for 1000 ms from now.  The calls are numbered in the
\* order in which they get there.
TaskSettleWait(k) ==
  /\ tasks[k].pc = "idle"
  /\ \A j \in TaskIds : j < k => tasks[j].pc # "idle"
  /\ \E url \in CaptureUrls :
       tasks' = [tasks EXCEPT ![k] = [pc |-> "wait", url |-> url,
                                      wakeAt |-> AddMs(now, SettleWaitMs),
                                      at |-> <<>>, name |-> <<>>, result |-> <<>>]]
  /\ UNCHANGED <<taskFrame, writes>>

\* The timer has fired and the call resumes: filename = generateFilename(url)
\* reads the clock; then await page.content().
TaskGenerateFilename(k) ==
  /\ tasks[k].pc = "wait"
  /\ ~Before(now, tasks[k].wakeAt)
  /\ tasks' = [tasks EXCEPT ![k].pc = "html", ![k].wakeAt = <<>>, ![k].at = now,
                            ![k].name = generateFilename(tasks[k].url, now)]
  /\ UNCHANGED <<taskFrame, writes>>

\* await writeFile(htmlPath, html, 'utf-8')
TaskWriteHtml(k) ==
  /\ tasks[k].pc = "html"
  /\ writes' = writes \cup {[path |-> artifactPath(tasks[k].url, "html", tasks[k].name,
                                                   ".html"),
                              task |-> k]}
  /\ tasks' = [tasks EXCEPT ![k].pc = "screenshot"]
  /\ UNCHANGED taskFrame

\* Variant of TaskScreenshot: the screenshot gets a file name of its own,
\* generated when it is taken.
TaskScreenshot_NewFilename(k) ==
  /\ tasks[k].pc = "screenshot"
  /\ writes' = writes \cup {[path |-> artifactPath(tasks[k].url, "screenshots",
                                                   generateFilename(tasks[k].url, now),
                                                   ".png"),
                              task |-> k]}
  /\ tasks' = [tasks EXCEPT ![k].pc = "close",
                            ![k].name = generateFilename(tasks[k].url, now)]
  /\ UNCHANGED taskFrame

\* await page.screenshot({ path: screenshotPath, fullPage: true })
TaskScreenshot(k) ==
  /\ tasks[k].pc = "screenshot"
  /\ writes' = writes \cup {[path |-> artifactPath(tasks[k].url, "screenshots",
                                                   tasks[k].name, ".png"),
                              task |-> k]}
  /\ tasks' = [tasks EXCEPT ![k].pc = "close"]
  /\ UNCHANGED taskFrame

\* await context.close() returns; return { url, htmlPath, screenshotPath,
\* timestamp: new Date().toISOString() }
TaskReturn(k) ==
  /\ tasks[k].pc = "close"
  /\ tasks' = [tasks EXCEPT
       ![k].pc = "resolved",
       ![k].result =
         <<[url |-> tasks[k].url,
            htmlPath |-> artifactPath(tasks[k].url, "html", tasks[k].name, ".html"),
            screenshotPath |-> artifactPath(tasks[k].url, "screenshots", tasks[k].name,
                                            ".png"),
            timestamp |-> toISOString(now)]>>]
  /\ UNCHANGED <<taskFrame, writes>>

\* writeFile, page.screenshot or context.close throws: catch logs and
\* rethrows, and the call rejects
TaskThrows(k) ==
  /\ tasks[k].pc \in {"html", "screenshot", "close"}
  /\ tasks' = [tasks EXCEPT ![k].pc = "rejected"]
  /\ UNCHANGED <<taskFrame, writes>>

InitCaptures ==
  /\ InitState
  /\ now \in StartInstants
  /\ siteHost = <<>>

NextCaptures ==
  \/ ClockAdvances
  \/ \E k \in TaskIds : TaskSettleWait(k)
  \/ \E k \in TaskIds : TaskGenerateFilename(k)
  \/ \E k \in TaskIds : TaskWriteHtml(k)
  \/ \E k \in TaskIds : TaskScreenshot(k)

SpecCaptures == InitCaptures /\ [][NextCaptures]_vars

\* One call of scrapeUrl from the settle wait to its return, against the clock.
NextResult ==
  \/ ClockTicks
  \/ TaskSettleWait(1) \/ TaskGenerateFilename(1)
  \/ TaskWriteHtml(1) \/ TaskScreenshot(1)
  \/ TaskReturn(1) \/ TaskThrows(1)

SpecResult == InitCaptures /\ [][NextResult]_vars

----------------------------------------------------------------------------
(* The tools run as commands *)

\* what a command's script leaves alone
programVars ==
  <<op, arg, pc, outcome, error, result, sessionVars, navVars, events, cropVars,
    dismissVars, files, batchVars, readinessVars, captureVars, offlineVars>>

Tools == {"scraper", "cropper", "deconstructor", "generator", "start"}
\* words of a command line; "" is also what a missing argument reads as
ArgWords == {"", "https://a.b", "components", "page"}
ArgLines == SeqsUpTo(ArgWords, MaxArgs)

\* process.argv[k + 1]: undefined past the end, and undefined is falsy like ''
Arg(k) == IF k <= Len(argv) THEN argv[k] ELSE ""
\* new URL(url) does not throw
IsUrl(word) == word = "https://a.b"

\* process.exit(1)
Exit1 == cliPc' = "exited" /\ exitCode' = 1

\* node <tool> <args...>
Invoke ==
  /\ cliPc = "idle"
  /\ \E t \in Tools : tool' = t
  /\ \E line \in ArgLines : argv' = line
  /\ cliPc' = "args"
  /\ UNCHANGED <<stepNo, stepLog, failure, exitCode, programVars>>

\* scraper: if (!url) { usage; process.exit(1) }
ScraperArgs ==
  /\ cliPc = "args" /\ tool = "scraper"
  /\ IF Arg(1) = ""
       THEN failure' = "usage" /\ Exit1
       ELSE cliPc' = "run" /\ UNCHANGED <<failure, exitCode>>
  /\ UNCHANGED <<tool, argv, stepNo, stepLog, programVars>>

\* cropper main(): if (!subfolder) { usage; process.exit(1) }
CropperArgs ==
  /\ cliPc = "args" /\ tool = "cropper"
  /\ IF Arg(1) = ""
       THEN failure' = "usage" /\ Exit1
       ELSE cliPc' = "run" /\ UNCHANGED <<failure, exitCode>>
  /\ UNCHANGED <<tool, argv, stepNo, stepLog, programVars>>

\* deconstructor: without a subfolder the usage is printed and the output
\* folders are listed first
DeconstructorArgs ==
  /\ cliPc = "args" /\ tool = "deconstructor"
  /\ IF Arg(1) = ""
       THEN failure' = "usage" /\ cliPc' = "listing"
       ELSE cliPc' = "run" /\ UNCHANGED failure
  /\ UNCHANGED <<tool, argv, stepNo, stepLog, exitCode, programVars>>

\* readdir(outputDir).then(...).catch(...).finally(() => process.exit(1))
DeconstructorListing ==
  /\ cliPc = "listing"
  /\ Exit1
  /\ UNCHANGED <<tool, argv, stepNo, stepLog, failure, programVars>>

\* generator: the three checks on type, subfolder, sfNextDir, targetFile, pageName
GeneratorArgs ==
  /\ cliPc = "args" /\ tool = "generator"
  /\ IF \/ Arg(1) = "" \/ Arg(2) = "" \/ Arg(3) = ""
        \/ (Arg(1) # "components" /\ Arg(1) # "page")
        \/ (Arg(1) = "page" /\ (Arg(4) = "" \/ Arg(5) = ""))
       THEN failure' = "usage" /\ Exit1
       ELSE cliPc' = "run" /\ UNCHANGED <<failure, exitCode>>
  /\ UNCHANGED <<tool, argv, stepNo, stepLog, programVars>>

\* start: if (!url || !sfNextDir || !targetFile || !pageName) { usage; exit(1) }
StartArgs ==
  /\ cliPc = "args" /\ tool = "start"
  /\ IF Arg(1) = "" \/ Arg(2) = "" \/ Arg(3) = "" \/ Arg(4) = ""
       THEN failure' = "usage" /\ Exit1
       ELSE cliPc' = "run" /\ UNCHANGED <<failure, exitCode>>
  /\ UNCHANGED <<tool, argv, stepNo, stepLog, programVars>>

\* how the operation of a one-step tool can settle: scrapeUrl rejects on a
\* url that new URL() does not take, the others as their environment decides
Settlements(t) ==
  IF t = "scraper" /\ ~IsUrl(Arg(1)) THEN {"rejected"} ELSE {"resolved", "rejected"}

\* scrapeUrl(url) / main() / deconstructSite(subfolder) / generate(options)
\* settles: a resolved promise leaves nothing to do, a rejected one goes to
\* the .catch handler
OperationSettles ==
  /\ cliPc = "run" /\ tool \in Tools \ {"start"}
  /\ \E o \in Settlements(tool) :
       IF o = "resolved"
         THEN cliPc' = "then" /\ UNCHANGED failure
         ELSE cliPc' = "catch" /\ failure' = "rejected"
  /\ UNCHANGED <<tool, argv, stepNo, stepLog, exitCode, programVars>>

\* the five awaits of the workflow
StartSteps == <<"scrapeUrl", "deconstructSite", "crop", "generate:components", "generate:page">>

\* start(): getDomainFolder(url) comes before the try block; then step 1
StartDomainFolder ==
  /\ cliPc = "run" /\ tool = "start"
  /\ IF IsUrl(Arg(1))
       THEN /\ cliPc' = "step" /\ stepNo' = 1
            /\ stepLog' = <<StartSteps[1]>>
            /\ UNCHANGED failure
       ELSE /\ cliPc' = "catch" /\ failure' = "rejected"
            /\ UNCHANGED <<stepNo, stepLog>>
  /\ UNCHANGED <<tool, argv, exitCode, programVars>>

\* Variant of StartStep: the catch block of start() logs the error and returns.
StartStep_CatchReturns ==
  /\ cliPc = "step"
  /\ \/ /\ stepNo < Len(StartSteps)
        /\ stepNo' = stepNo + 1
        /\ stepLog' = stepLog \o <<"ok", StartSteps[stepNo + 1]>>
        /\ UNCHANGED <<cliPc, failure>>
     \/ /\ stepNo = Len(StartSteps)
        /\ cliPc' = "then"
        /\ stepLog' = Append(stepLog, "ok")
        /\ UNCHANGED <<stepNo, failure>>
     \/ /\ failure' = "rejected"
        /\ cliPc' = "then"
        /\ stepLog' = Append(stepLog, "failed")
        /\ UNCHANGED stepNo
  /\ UNCHANGED <<tool, argv, exitCode, programVars>>

\* Variant of StartStep: a step that throws is logged and the next one begins.
StartStep_GoesOnAfterFailure ==
  /\ cliPc = "step"
  /\ \/ /\ stepNo < Len(StartSteps)
        /\ stepNo' = stepNo + 1
        /\ stepLog' = stepLog \o <<"ok", StartSteps[stepNo + 1]>>
        /\ UNCHANGED <<cliPc, failure>>
     \/ /\ stepNo = Len(StartSteps)
        /\ cliPc' = "then"
        /\ stepLog' = Append(stepLog, "ok")
        /\ UNCHANGED <<stepNo, failure>>
     \/ /\ stepNo < Len(StartSteps)
        /\ stepNo' = stepNo + 1
        /\ stepLog' = stepLog \o <<"failed", StartSteps[stepNo + 1]>>
        /\ UNCHANGED <<cliPc, failure>>
     \/ /\ failure' = "rejected"
        /\ cliPc' = "tryCatch"
        /\ stepLog' = Append(stepLog, "failed")
        /\ UNCHANGED stepNo
  /\ UNCHANGED <<tool, argv, exitCode, programVars>>

\* start(): the awaited step returns and the next one begins, or it throws
\* and control is in the catch block
StartStep ==
  /\ cliPc = "step"
  /\ \/ /\ stepNo < Len(StartSteps)
        /\ stepNo' = stepNo + 1
        /\ stepLog' = stepLog \o <<"ok", StartSteps[stepNo + 1]>>
        /\ UNCHANGED <<cliPc, failure>>
     \/ /\ stepNo = Len(StartSteps)
        /\ cliPc' = "then"
        /\ stepLog' = Append(stepLog, "ok")
        /\ UNCHANGED <<stepNo, failure>>
     \/ /\ failure' = "rejected"
        /\ cliPc' = "tryCatch"
        /\ stepLog' = Append(stepLog, "failed")
        /\ UNCHANGED stepNo
  /\ UNCHANGED <<tool, argv, exitCode, programVars>>

\* start(): catch (error) { ...; process.exit(1) }
StartCatch ==
  /\ cliPc = "tryCatch"
  /\ Exit1
  /\ UNCHANGED <<tool, argv, stepNo, stepLog, failure, programVars>>

\* .catch((error) => { console.error(...); process.exit(1) })
CatchHandler ==
  /\ cliPc = "catch"
  /\ Exit1
  /\ UNCHANGED <<tool, argv, stepNo, stepLog, failure, programVars>>

\* nothing is left to run: node exits with process.exitCode, which nothing set
NaturalExit ==
  /\ cliPc = "then"
  /\ cliPc' = "exited"
  /\ UNCHANGED <<tool, argv, stepNo, stepLog, failure, exitCode, programVars>>

NextCli ==
  \/ Invoke
  \/ ScraperArgs \/ CropperArgs \/ DeconstructorArgs \/ DeconstructorListing
  \/ GeneratorArgs \/ StartArgs
  \/ OperationSettles \/ StartDomainFolder \/ StartStep \/ StartCatch
  \/ CatchHandler \/ NaturalExit

SpecCli == Init /\ [][NextCli]_vars

----------------------------------------------------------------------------
(* Properties *)

Settled == outcome # "pending"
Launched == browser # "none"
PrimaryFailed == "networkidle" \in gotoFailed
FallbackFailed == "domcontentloaded" \in gotoFailed
Has(seq, e) == \E i \in 1..Len(seq) : seq[i] = e
IsPrefix(s, t) == Len(s) <= Len(t) /\ SubSeq(t, 1, Len(s)) = s

StageOrder ==
  <<"dismiss:start", "dismiss:end", "lazy:start", "lazy:end", "images:start", "images:end">>
StageEvents == {StageOrder[i] : i \in 1..Len(StageOrder)}
CaptureEvents == {"content", "html", "screenshot", "crop"}
StagesRun == SelectSeq(events, LAMBDA e : e \in StageEvents)

\* C1: in scrapeUrl, once the browser has been launched, browser.close() is
\* called exactly once before the call settles, resolved or rejected, and is
\* never called a second time.
C1_ScrapeClosesBrowserOnce ==
  op = "scrapeUrl" =>
    /\ closeCalls <= 1
    /\ (Settled /\ Launched) => (closeCalls = 1 /\ browser = "closed")
    /\ closeCalls = 1 <=> pc \in {"settle", "resume", "done"} /\ Launched

C1_Witness ==
  /\ op = "scrapeUrl" /\ outcome = "rejected" /\ error = "createStealthContext"
  /\ closeCalls = 1 /\ browser = "closed"

\* C2: in crop, once the browser has been launched it is closed on every
\* exit path before crop settles, context creation throwing included.
C2_CropClosesBrowserOnEveryExit ==
  (op = "crop" /\ Settled /\ Launched) => (closeCalls >= 1 /\ browser = "closed")

\* C3: a failed primary navigation is never what a call rejects with: the
\* fallback goto is issued next, and when the fallback succeeds the call goes
\* on past navigation, any later rejection coming from a later step; a
\* scrapeUrl that then resolves has run the readiness pipeline and written
\* both artifacts.
C3_FallbackRescuesNavigation ==
  PrimaryFailed =>
    /\ pc = "gotoFallback" \/ Has(gotoLog, "domcontentloaded")
    /\ error # "gotoPrimary"
    /\ navTier = "fallback" =>
         /\ error \notin {"gotoPrimary", "gotoFallback"}
         /\ (op = "scrapeUrl" /\ outcome = "resolved") =>
              /\ StagesRun = StageOrder
              /\ {htmlPathOf(arg), screenshotPathOf(arg)} \subseteq files

C3_Witness ==
  /\ op = "scrapeUrl" /\ PrimaryFailed /\ navTier = "fallback" /\ outcome = "resolved"
  /\ {htmlPathOf(arg), screenshotPathOf(arg)} \subseteq files

\* C4: when both navigation tiers throw, scrapeUrl rejects with the fallback
\* tier's error; no readiness stage runs, no file is written and no
\* ScrapeResult is returned.
C4_TotalNavigationFailureIsFatal ==
  (op = "scrapeUrl" /\ PrimaryFailed /\ FallbackFailed) =>
    /\ error = "gotoFallback"
    /\ pc \in {"finally", "settle", "resume", "done"}
    /\ pc \in {"resume", "done"} => outcome = "rejected"
    /\ outcome # "resolved"
    /\ events = <<>>
    /\ results = <<>> => files = {}
    /\ result = NoResult

C4_Witness ==
  /\ op = "scrapeUrl" /\ PrimaryFailed /\ FallbackFailed
  /\ outcome = "rejected" /\ error = "gotoFallback"

\* C5: within one navigation the primary goto is issued exactly once, the
\* fallback goto at most once and only after the primary one failed; no tier
\* is issued twice, and after a primary success no fallback goto is issued.
C5_EachTierAtMostOnce ==
  /\ gotoLog \in {<<>>, <<"networkidle">>, <<"networkidle", "domcontentloaded">>}
  /\ Has(gotoLog, "domcontentloaded") => PrimaryFailed
  /\ navTier = "primary" => gotoLog = <<"networkidle">>
  /\ navTier # "none" => Has(gotoLog, "networkidle")
  /\ pc = "gotoFallback" => gotoLog = <<"networkidle">>
  /\ (pc \in {"grace", "loadState"} \/ events # <<>>) => Has(gotoLog, "networkidle")

C5_Witness ==
  /\ navTier = "primary" /\ outcome = "resolved" /\ gotoLog = <<"networkidle">>

\* C6: a time-out or failure of the bounded wait for the load event never
\* aborts the call: the step after it is always started (the random scroll in
\* scrapeUrl, the dismissal stage in crop), and no call rejects with it.
C6_LoadWaitNeverAborts ==
  /\ error # "waitForLoadState"
  /\ loadState = "timeout" =>
       IF op = "scrapeUrl"
         THEN pc = "humanScroll" \/ humanScroll # <<>> \/ error = "humanScroll"
         ELSE pc = "dm_wait" \/ Has(events, "dismiss:start")

C6_Witness ==
  /\ loadState = "timeout" /\ navTier = "fallback" /\ outcome = "resolved"
  /\ Has(events, "images:end")

\* C7: the readiness stages run in the order dismissal, scroll sweep, image
\* wait, each at most once and each starting only after the one before it
\* ended; once the image wait has ended each has run exactly once; nothing is
\* serialized, written or screenshotted before the image wait has ended.
C7_ReadinessStagesInOrder ==
  /\ IsPrefix(StagesRun, StageOrder)
  /\ \A i \in 1..Len(events) :
       events[i] \in CaptureEvents => Has(SubSeq(events, 1, i - 1), "images:end")
  /\ (files # {} /\ results = <<>>) => Has(events, "images:end")
  /\ pc \in {"scrollTop", "settleWait", "content", "writeHtml", "screenshot", "contextClose",
             "return", "component"} => StagesRun = StageOrder
  /\ pc = "lazy" => StagesRun = SubSeq(StageOrder, 1, 2)
  /\ pc = "images" => StagesRun = SubSeq(StageOrder, 1, 4)

C7_Witness ==
  /\ op = "scrapeUrl" /\ outcome = "resolved"
  /\ events = StageOrder \o <<"scrollTop", "settleWait", "content", "html", "screenshot">>

\* C8: a failure inside the dismissal stage, the scroll-sweep stage or the
\* image-wait stage is absorbed: no call is aborted by one of the three stages.
C8_ReadinessStagesAbsorbFailures ==
  error \notin {"dismissModals", "triggerLazyLoadedImages", "waitForImages"}

\* C9: the scan probes the candidate selectors in list order, each exactly
\* once; a click, a failed visibility check or a failed click never ends the
\* scan early: when the Escape step is reached the whole list has been probed.
C9_ScanProbesEverySelector ==
  /\ probes = SubSeq(dismissSelectors, 1, selIdx)
  /\ (pc \in {"dm_escape", "dm_report"} \/ escapes # <<>>) => probes = dismissSelectors

C9_Witness ==
  /\ pc = "dm_escape" /\ clicks = MaxMatches /\ probes = dismissSelectors

\* C10: the count the dismissal stage reports equals the number of elements
\* that were dismissed; a page on which nothing matches reports 0.
C10_ReportedCountIsDismissals ==
  reported # -1 => reported = clicks

\* C11: every run of the dismissal stage issues exactly one Escape key press,
\* after the whole selector list has been scanned and whatever the scan
\* dismissed; a key press that throws is swallowed and the stage goes on to
\* its report.
C11_OneEscapePressPerRun ==
  /\ Len(escapes) <= 1
  /\ Len(escapes) = 1 <=> (pc = "dm_report" \/ reported # -1)
  /\ escapes # <<>> => probes = dismissSelectors
  /\ error # "escape"

C11_Witness ==
  /\ escapes = <<"threw">> /\ clicks = MaxMatches /\ Has(events, "dismiss:end")

CropLoopOver == op = "crop" /\ Len(manifest) > 0 /\ error = "none"
                  /\ pc \in {"finally", "settle", "done"}
ExampleManifest ==
  << [name |-> "A", cssSelector |-> ".missing"], [name |-> "B", cssSelector |-> "body"] >>

\* C15: in crop, a component whose selector matches nothing, never becomes
\* visible or whose screenshot throws leaves no file and does not stop the
\* loop: every component of the manifest is processed, a file exists exactly
\* for the components that were screenshotted, and for [A non-matching,
\* B matching and captured] exactly B.png is written.
C15_BadComponentIsSkipped ==
  op = "crop" =>
    /\ Len(cropLog) = compIdx
    /\ \A i \in 1..compIdx :
         /\ pngPathOf(arg, manifest[i].name) \in files <=> cropLog[i] = "saved"
         /\ manifest[i].cssSelector \in {"", ".missing"} => cropLog[i] # "saved"
    /\ files \subseteq { pngPathOf(arg, manifest[i].name) : i \in 1..compIdx }
    /\ CropLoopOver => compIdx = Len(manifest)
    /\ (manifest = ExampleManifest /\ cropLog = <<"skipped", "saved">>)
         => files = {pngPathOf(arg, "B")}

C15_Witness ==
  /\ op = "crop" /\ manifest = ExampleManifest /\ outcome = "resolved"
  /\ cropLog = <<"skipped", "saved">> /\ files = {pngPathOf(arg, "B")}

\* C16 as claimed: crop never rejects.
C16_CropNeverRejects ==
  op = "crop" => outcome # "rejected"

\* C16 amended: no failure inside the component loop makes crop reject; crop
\* rejects only with the error of a step before the loop (manifest read,
\* mkdir, launch, context, page, navigation, readiness stage).
C16_CropRejectsOnlyBeforeLoop ==
  op = "crop" =>
    /\ (pc = "component" \/ compIdx > 0) => (error = "none" /\ outcome # "rejected")
    /\ outcome = "rejected" =>
         /\ cropLog = <<>>
         /\ error \in {"loadManifest", "mkdir", "launch", "createStealthContext", "newPage",
                       "gotoFallback", "graceWait", "dismissModals",
                       "triggerLazyLoadedImages"}

C16_Witness ==
  /\ op = "crop" /\ outcome = "resolved" /\ cropLog = <<"skipped", "skipped">>

RECURSIVE SequentialLog(_)
SequentialLog(us) ==
  IF us = <<>> THEN <<>>
  ELSE <<[ev |-> "start", url |-> Head(us)], [ev |-> "settle", url |-> Head(us)]>>
         \o SequentialLog(Tail(us))

\* C17: scrapeUrls works through its urls one at a time in input order: the
\* scrape of the next url starts only after the scrape before it has
\* settled, and when every scrape succeeded the returned list is as long as
\* the input, with results[i].url = urls[i].
C17_BatchIsSequentialInOrder ==
  caller = "scrapeUrls" =>
    /\ IsPrefix(batchLog, SequentialLog(urls))
    /\ Len(batchLog) = (IF pc = "done" THEN 2 * urlIdx ELSE 2 * urlIdx - 1)
    /\ pc # "done" => Len(results) = urlIdx - 1
    /\ \A i \in 1..Len(results) : results[i].url = urls[i]
    /\ batchOutcome = "resolved" =>
         /\ Len(results) = Len(urls)
         /\ batchValue = {results}
         /\ results = <<>> \/ outcome = "resolved"

C17_Witness ==
  /\ batchOutcome = "resolved" /\ Len(urls) = MaxBatch /\ urls[1] # urls[MaxBatch]
  /\ batchValue = {results} /\ Len(results) = MaxBatch

\* C18: scrapeUrls fails fast: when the scrape of urls[k] rejects, scrapeUrls
\* rejects with that same error, no url after position k is attempted, and
\* the caller receives none of the results collected before k.
C18_BatchFailsFast ==
  caller = "scrapeUrls" =>
    /\ batchOutcome = "rejected" <=> (pc = "done" /\ outcome = "rejected")
    /\ batchOutcome = "rejected" =>
         /\ batchError = error /\ error # "none"
         /\ batchValue = {}
         /\ urlIdx = Len(results) + 1
         /\ batchLog = SubSeq(SequentialLog(urls), 1, 2 * urlIdx)
    /\ batchOutcome = "resolved" => batchError = "none"

C18_Witness ==
  /\ batchOutcome = "rejected" /\ batchError = "gotoFallback"
  /\ urlIdx = 1 /\ Len(urls) = MaxBatch /\ batchValue = {}
  /\ Len(batchLog) = 2

\* C12: the lazy-load scroll sweep terminates for every page, a page whose
\* scroll height grows by at least one scroll step per increment included.
C12_SweepTerminates ==
  (op = "triggerLazyLoadedImages") ~> (pc = "done")

\* C13: a call of waitForImages with timeout T settles no later than
\* T + 200 ms after it starts, even when a visible image never finishes
\* loading; polls are 200 ms apart, and none is scheduled after the first
\* poll at which the elapsed time exceeds T.
C13_ImageWaitIsBounded ==
  op = "waitForImages" =>
    /\ elapsed <= timeoutMs + PollIntervalMs
    /\ pc = "timer" => (elapsed <= timeoutMs /\ elapsed = PollIntervalMs * (polls - 1))
    /\ pc = "poll" => elapsed = PollIntervalMs * polls
    /\ PollIntervalMs * polls <= timeoutMs + 2 * PollIntervalMs

C13_Witness ==
  /\ op = "waitForImages" /\ pc = "done" /\ timeoutMs = DefaultTimeoutMs
  /\ loaded < visible
  /\ elapsed = timeoutMs + PollIntervalMs
  /\ Has(imagesLog, [line |-> "Loaded", loaded |-> loaded, visible |-> visible])

\* C14: waitForImages never rejects: on time-out it resolves, reporting the
\* fraction of visible images that has loaded, and an exception from the
\* in-page evaluation is caught, so its caller goes on.
C14_ImageWaitNeverRejects ==
  op = "waitForImages" =>
    /\ outcome # "rejected" /\ error = "none"
    /\ pc = "done" => outcome = "resolved"
    /\ (pc = "done" /\ loaded < visible) =>
         \/ /\ elapsed > timeoutMs
            /\ Has(imagesLog, [line |-> "Loaded", loaded |-> loaded, visible |-> visible])
         \/ Has(imagesLog, ImagesLine("Image loading check completed with timeout"))

C14_Witness ==
  /\ op = "waitForImages" /\ outcome = "resolved" /\ polls > 0 /\ loaded < visible
  /\ imagesLog[Len(imagesLog)] = ImagesLine("Image loading check completed with timeout")

\* the characters of a file name in the order of their UTF-16 code units
CodeUnitOrder ==
  <<"+", "-", ".", "0", "1", "2", "3", "4", "5", "6", "7", "8", "9",
    "A", "B", "C", "D", "E", "F", "G", "H", "I", "J", "K", "L", "M", "N", "O", "P", "Q",
    "R", "S", "T", "U", "V", "W", "X", "Y", "Z", "_",
    "a", "b", "c", "d", "e", "f", "g", "h", "i", "j", "k", "l", "m", "n", "o", "p", "q",
    "r", "s", "t", "u", "v", "w", "x", "y", "z">>
CodeUnit(c) == CHOOSE i \in 1..Len(CodeUnitOrder) : CodeUnitOrder[i] = c

\* a < b for strings, as localeless comparison and Array.prototype.sort order them
RECURSIVE LexLess(_, _)
LexLess(a, b) ==
  IF b = <<>> THEN FALSE
  ELSE IF a = <<>> THEN TRUE
  ELSE IF Head(a) = Head(b) THEN LexLess(Tail(a), Tail(b))
  ELSE CodeUnit(Head(a)) < CodeUnit(Head(b))

----------------------------------------------------------------------------
(* deconstructSite on the files that runs of scrapeUrl have left *)

\* the urls scraped one after another: two pages of one host, and another host
RunUrls ==
  { [hostname |-> <<"a", ".", "b">>, pathname |-> <<"/">>],
    [hostname |-> <<"a", ".", "b">>, pathname |-> <<"/", "p", "q">>],
    [hostname |-> <<"w", ".", "a", ".", "b">>, pathname |-> <<"/", "p">>] }

RunSettled(k) == tasks[k].pc \in {"resolved", "rejected"}

\* The next run of scrapeUrl begins once the one before has settled, and
\* gets as far as await page.waitForTimeout(1000).
RunSettleWait(k) ==
  /\ dPc = "idle"
  /\ tasks[k].pc = "idle"
  /\ \A j \in TaskIds : j < k => RunSettled(j)
  /\ \E url \in RunUrls :
       tasks' = [tasks EXCEPT ![k] = [pc |-> "wait", url |-> url,
                                      wakeAt |-> AddMs(now, SettleWaitMs),
                                      at |-> <<>>, name |-> <<>>, result |-> <<>>]]
  /\ UNCHANGED <<taskFrame, writes>>

\* readdir(dirPath): the files that the runs wrote under output/<folder>/<dir>
DirFiles(folder, dir) ==
  {w.path : w \in {x \in writes : x.path.folder = folder /\ x.path.dir = dir}}

ExtChars(ext) ==
  IF ext = ".html" THEN <<".", "h", "t", "m", "l">> ELSE <<".", "p", "n", "g">>
\* the name of a file as readdir lists it
FileName(f) == f.stem \o ExtChars(f.ext)

\* Variant of getLatestFile: the newest file by the timestamp at the end of
\* its name.
getLatestFile_ByTimestamp(listing, extension) ==
  LET matchingFiles == {f \in listing : f.ext = extension}
      Stamp(f) == SubSeq(f.stem, Len(f.stem) - 23, Len(f.stem))
  IN  IF matchingFiles = {} THEN <<>>
      ELSE <<CHOOSE f \in matchingFiles :
               \A g \in matchingFiles : ~LexLess(Stamp(f), Stamp(g))>>

\* getLatestFile when readdir returns `listing`: filter by endsWith(extension),
\* sort(), take the last; null (here <<>>) when nothing matches
getLatestFile(listing, extension) ==
  LET matchingFiles == {f \in listing : f.ext = extension}
  IN  IF matchingFiles = {} THEN <<>>
      ELSE <<CHOOSE f \in matchingFiles :
               \A g \in matchingFiles \ {f} : LexLess(FileName(g), FileName(f))>>

deconFrame ==
  <<op, arg, pc, outcome, error, result, sessionVars, navVars, events, cropVars,
    dismissVars, files, batchVars, readinessVars, captureVars, cliVars, folderVars,
    genVars>>

\* the await at dPc throws: deconstructSite rejects with `message`
DeconRejects(message) ==
  /\ dPc' = "done" /\ dOutcome' = "rejected" /\ dError' = message

\* deconstructSite(subfolder), while no run of scrapeUrl is under way;
\* analysis/manifest.json may be there from an earlier deconstruction
CallDeconstructSite ==
  /\ dPc = "idle"
  /\ \A k \in TaskIds : tasks[k].pc = "idle" \/ RunSettled(k)
  /\ \E subfolder \in {getDomainFolder(u) : u \in RunUrls} : dArg' = subfolder
  /\ \E m \in {"absent", "old"} : manifestJson' = m
  /\ dPc' = "mkdir"
  /\ UNCHANGED <<dOutcome, dError, htmlFile, screenshotFile, dEffects, deconFrame>>

\* await mkdir(analysisDir, { recursive: true })
DeconMkdirAnalysis ==
  /\ dPc = "mkdir"
  /\ \/ /\ dEffects' = Append(dEffects, "mkdir:analysis")
        /\ dPc' = "latestHtml"
        /\ UNCHANGED <<dOutcome, dError>>
     \/ /\ DeconRejects("mkdir")
        /\ UNCHANGED dEffects
  /\ UNCHANGED <<dArg, htmlFile, screenshotFile, manifestJson, deconFrame>>

\* htmlFile = await getLatestFile(htmlDir, '.html'); a readdir that throws
\* gives null as well; if (!htmlFile) throw
DeconLatestHtml ==
  /\ dPc = "latestHtml"
  /\ \E readable \in BOOLEAN :
       htmlFile' = IF readable THEN getLatestFile(DirFiles(dArg, "html"), ".html")
                   ELSE <<>>
  /\ IF htmlFile' = <<>>
       THEN DeconRejects("No HTML files found")
       ELSE dPc' = "latestPng" /\ UNCHANGED <<dOutcome, dError>>
  /\ UNCHANGED <<dArg, screenshotFile, dEffects, manifestJson, deconFrame>>

\* screenshotFile = await getLatestFile(screenshotsDir, '.png');
\* if (!screenshotFile) throw
DeconLatestScreenshot ==
  /\ dPc = "latestPng"
  /\ \E readable \in BOOLEAN :
       screenshotFile' =
         IF readable THEN getLatestFile(DirFiles(dArg, "screenshots"), ".png") ELSE <<>>
  /\ IF screenshotFile' = <<>>
       THEN DeconRejects("No screenshot files found")
       ELSE dPc' = "template" /\ UNCHANGED <<dOutcome, dError>>
  /\ UNCHANGED <<dArg, htmlFile, dEffects, manifestJson, deconFrame>>

\* Handlebars.compile(await readFile(templatePath, 'utf-8'))(context)
DeconTemplate ==
  /\ dPc = "template"
  /\ \/ dPc' = "prompt" /\ UNCHANGED <<dOutcome, dError>>
     \/ DeconRejects("readFile")
  /\ UNCHANGED <<dArg, htmlFile, screenshotFile, dEffects, manifestJson, deconFrame>>

\* await mkdir(promptOutputDir); await writeFile(promptOutputPath, prompt)
DeconWritePrompt ==
  /\ dPc = "prompt"
  /\ \/ /\ dEffects' = dEffects \o <<"mkdir:prompts", "prompt">>
        /\ dPc' = "cli"
        /\ UNCHANGED <<dOutcome, dError>>
     \/ /\ dEffects' = Append(dEffects, "mkdir:prompts")
        /\ DeconRejects("writeFile")
     \/ /\ DeconRejects("mkdir")
        /\ UNCHANGED dEffects
  /\ UNCHANGED <<dArg, htmlFile, screenshotFile, manifestJson, deconFrame>>

\* Variant of DeconCli: an exception of execSync is logged and the function
\* goes on as if the output had been empty.
DeconCli_FailureIgnored ==
  /\ dPc = "cli"
  /\ \/ /\ \E fenced \in BOOLEAN :
             IF fenced
               THEN /\ dEffects' = Append(dEffects, "cli:fenced")
                    /\ dPc' = "manifest" /\ UNCHANGED dOutcome
               ELSE /\ dEffects' = Append(dEffects, "cli:plain")
                    /\ dPc' = "done" /\ dOutcome' = "resolved"
     \/ /\ dEffects' = Append(dEffects, "cli:failed")
        /\ dPc' = "manifest" /\ UNCHANGED dOutcome
  /\ UNCHANGED <<dArg, dError, htmlFile, screenshotFile, manifestJson, deconFrame>>

\* output = execSync(`cat <prompt> | claude -p`); the first fenced block of
\* the output, if there is one, is the manifest; an exception anywhere in
\* the try block is rethrown as 'Claude CLI failed: ...'
DeconCli ==
  /\ dPc = "cli"
  /\ \/ /\ \E fenced \in BOOLEAN :
             IF fenced
               THEN /\ dEffects' = Append(dEffects, "cli:fenced")
                    /\ dPc' = "manifest" /\ UNCHANGED dOutcome
               ELSE /\ dEffects' = Append(dEffects, "cli:plain")
                    /\ dPc' = "done" /\ dOutcome' = "resolved"
        /\ UNCHANGED dError
     \/ /\ dEffects' = Append(dEffects, "cli:failed")
        /\ DeconRejects("Claude CLI failed")
  /\ UNCHANGED <<dArg, htmlFile, screenshotFile, manifestJson, deconFrame>>

\* await writeFile(manifestOutputPath, manifestJsonStr): inside the same try
\* block; a write that fails may leave the file as it was or cut short
DeconWriteManifest ==
  /\ dPc = "manifest"
  /\ \/ /\ manifestJson' = "new"
        /\ dEffects' = Append(dEffects, "manifest")
        /\ dPc' = "done" /\ dOutcome' = "resolved"
        /\ UNCHANGED dError
     \/ /\ \E m \in {manifestJson, "partial"} : manifestJson' = m
        /\ dEffects' = Append(dEffects, "manifest:failed")
        /\ DeconRejects("Claude CLI failed")
  /\ UNCHANGED <<dArg, htmlFile, screenshotFile, deconFrame>>

\* Runs of scrapeUrl one after another, then deconstructSite on what they left.
NextRuns ==
  \/ ClockTicks
  \/ \E k \in TaskIds : RunSettleWait(k)
  \/ \E k \in TaskIds : TaskGenerateFilename(k)
  \/ \E k \in TaskIds : TaskWriteHtml(k)
  \/ \E k \in TaskIds : TaskScreenshot(k)
  \/ \E k \in TaskIds : TaskReturn(k)
  \/ \E k \in TaskIds : TaskThrows(k)
  \/ CallDeconstructSite
  \/ DeconMkdirAnalysis \/ DeconLatestHtml \/ DeconLatestScreenshot
  \/ DeconTemplate \/ DeconWritePrompt \/ DeconCli \/ DeconWriteManifest

SpecRuns == Init /\ [][NextRuns]_vars

----------------------------------------------------------------------------
(* The domain folder: from the url to the folder and back *)

\* longest hostname tried, in characters
MaxHost == 4

\* a letter, another letter, the hyphen and the label separator
HostChars == {"a", "b", "-", "."}

\* The hostnames new URL(url) yields for the urls tried: labels of letters
\* and hyphens, no label empty, none starting or ending with a hyphen.
Hostnames ==
  { h \in UNION { [1..n -> HostChars] : n \in 1..MaxHost } :
      /\ h[1] \notin {"-", "."} /\ h[Len(h)] \notin {"-", "."}
      /\ \A i \in 1..(Len(h) - 1) :
           ~(h[i] \in {"-", "."} /\ h[i + 1] = ".") /\ ~(h[i] = "." /\ h[i + 1] = "-") }

folderFrame ==
  <<op, arg, pc, outcome, error, result, sessionVars, navVars, events, cropVars,
    dismissVars, files, batchVars, readinessVars, captureVars, cliVars, deconVars,
    genVars>>

\* scrapeUrl(url): const domainFolder = getDomainFolder(url)
ScrapeDomainFolder ==
  /\ domainFolder = <<>>
  /\ domainFolder' = getDomainFolder([hostname |-> siteHost, pathname |-> <<"/">>])
  /\ UNCHANGED <<folderFrame, siteHost, cropHostname, domain>>

\* crop(subfolder): const hostname = subfolderToHostname(subfolder);
\* the page then goes to `https://${hostname}`
CropHostname ==
  /\ domainFolder # <<>> /\ cropHostname = <<>>
  /\ cropHostname' = subfolderToHostname(domainFolder)
  /\ UNCHANGED <<folderFrame, siteHost, domainFolder, domain>>

\* deconstructSite(subfolder): domain: `${subfolder.replace(/-/g, '.')}`
DeconDomain ==
  /\ domainFolder # <<>> /\ domain = <<>>
  /\ domain' = ReplaceAll(domainFolder, "-", ".")
  /\ UNCHANGED <<folderFrame, siteHost, domainFolder, cropHostname>>

InitFolder ==
  /\ InitState
  /\ now = [day |-> 20759, ms |-> 27368999]
  /\ siteHost \in Hostnames

NextFolder == ScrapeDomainFolder \/ CropHostname \/ DeconDomain

SpecFolder == InitFolder /\ [][NextFolder]_vars

----------------------------------------------------------------------------
(* generate: components and page *)

Digits == {"0", "1", "2", "3", "4", "5", "6", "7", "8", "9"}

\* String.prototype.split('.')
RECURSIVE SplitDot(_)
SplitDot(s) ==
  IF s = <<>> THEN << <<>> >>
  ELSE LET rest == SplitDot(Tail(s)) IN
       IF Head(s) = "." THEN << <<>> >> \o rest
       ELSE << <<Head(s)>> \o Head(rest) >> \o Tail(rest)

\* String.prototype.toLowerCase, over the letters used
toLowerCase(s) ==
  [i \in 1..Len(s) |-> IF s[i] = "A" THEN "a" ELSE IF s[i] = "B" THEN "b" ELSE s[i]]

\* domain = subfolder.replace(/-/g, '.'); domain.split('.')
domainLabels(subfolder) == SplitDot(ReplaceAll(subfolder, "-", "."))

\* domain.split('.')[1].toLowerCase(): a TypeError when there is no [1]
merchantName(subfolder) == toLowerCase(domainLabels(subfolder)[2])

\* join(sfNextDir, 'src', 'components', merchantName), as path segments
componentsOutputDir(opts) ==
  <<opts.sfNextDir, "src", "components", merchantName(opts.subfolder)>>

RECURSIVE LeadingDigits(_)
LeadingDigits(name) ==
  IF name = <<>> \/ Head(name) \notin Digits THEN 0 ELSE 1 + LeadingDigits(Tail(name))

\* Variant of strippedName: the numeric prefix is kept.
strippedName_KeepsPrefix(name) == name

\* component.name.replace(/^\d+-/, '')
strippedName(name) ==
  LET n == LeadingDigits(name) IN
  IF n >= 1 /\ n < Len(name) /\ name[n + 1] = "-"
    THEN SubSeq(name, n + 2, Len(name))
    ELSE name

\* { ...component, sourceFile: path.resolve(join(componentsOutputDir, `${strippedName}.tsx`)) }
withSourceFile(component, dir) ==
  [f \in DOMAIN component \cup {"sourceFile"} |->
     IF f = "sourceFile" THEN dir \o <<strippedName(component.name) \o <<".tsx">> >>
     ELSE component[f]]

\* manifest.components.map(...) of the update step
updatedComponents(components, dir) ==
  [i \in 1..Len(components) |-> withSourceFile(components[i], dir)]

\* component names as the analysis writes them, with and without a prefix
GenNames ==
  { <<"0", "1", "-", "H">>, <<"H">>, <<"1", "-", "2", "-", "H">>, <<"1", "H">> }

\* a component of manifest.json: as the analysis wrote it, or with the
\* sourceFile an earlier generation gave it
GenComponents ==
  UNION { { [name |-> n, cssSelector |-> "body", description |-> "hero"],
            [name |-> n, cssSelector |-> "body", sourceFile |-> <<"old", n>>] } :
          n \in GenNames }

GenManifests ==
  UNION { [1..n -> GenComponents] : n \in 0..MaxComponents }

GenSubfolders ==
  { <<"w", "-", "a", "-", "b">>, <<"A", "-", "b">>, <<"a">> }

\* process.argv[5], process.argv[6]: missing, empty, or a value
OptionalArgs == {"undefined", "", "given"}

\* !value, for a string or undefined
Falsy(value) == value \in {"undefined", ""}

GeneratorOptions ==
  [type : {"components", "page", "pages"}, subfolder : GenSubfolders,
   sfNextDir : {"storefront-next"}, targetFile : OptionalArgs, pageName : OptionalArgs]

genFrame ==
  <<op, arg, pc, outcome, error, result, sessionVars, navVars, events, cropVars,
    dismissVars, files, batchVars, readinessVars, captureVars, cliVars, deconVars,
    folderVars>>

\* an exception inside the try of generate: the catch logs it and rethrows
GenRejects(message) ==
  /\ genOutcome' = "rejected" /\ genError' = message /\ genPc' = "done"

\* the await at genPc returns, having done `effect`, or throws
GenStep(at, effect, next) ==
  /\ genPc = at
  /\ \/ /\ genEffects' = Append(genEffects, effect)
        /\ genPc' = next
        /\ UNCHANGED <<genOutcome, genError>>
     \/ /\ GenRejects("fs")
        /\ UNCHANGED genEffects
  /\ UNCHANGED <<genFrame, options, manifestFile, manifestWas>>

\* Variant of CallGenerate: the switch checks neither the page arguments nor
\* the type, and everything that is not 'components' goes to generatePage.
CallGenerate_NoValidation ==
  /\ genPc = "idle"
  /\ \E opts \in GeneratorOptions, components \in GenManifests :
       /\ options' = opts
       /\ manifestFile' = [whole |-> TRUE, components |-> components]
       /\ manifestWas' = [whole |-> TRUE, components |-> components]
       /\ IF opts.type = "components"
            THEN IF Len(domainLabels(opts.subfolder)) < 2
                   THEN GenRejects("TypeError")
                   ELSE /\ genPc' = "mkdirComponents"
                        /\ UNCHANGED <<genOutcome, genError>>
            ELSE /\ genPc' = "readManifest"
                 /\ UNCHANGED <<genOutcome, genError>>
  /\ UNCHANGED <<genFrame, genEffects, genManifest>>

\* generate(options) up to its first await: the switch on the type, the
\* validation of the page arguments, and the synchronous start of
\* generateComponents (merchantName) or generatePage
CallGenerate ==
  /\ genPc = "idle"
  /\ \E opts \in GeneratorOptions, components \in GenManifests :
       /\ options' = opts
       /\ manifestFile' = [whole |-> TRUE, components |-> components]
       /\ manifestWas' = [whole |-> TRUE, components |-> components]
       /\ CASE opts.type = "components" ->
                 IF Len(domainLabels(opts.subfolder)) < 2
                   THEN GenRejects("TypeError")
                   ELSE /\ genPc' = "mkdirComponents"
                        /\ UNCHANGED <<genOutcome, genError>>
            [] opts.type = "page" ->
                 IF Falsy(opts.targetFile) \/ Falsy(opts.pageName)
                   THEN GenRejects("targetFile and pageName are required for page generation")
                   ELSE /\ genPc' = "readManifest"
                        /\ UNCHANGED <<genOutcome, genError>>
            [] OTHER -> GenRejects("Unknown generation type")
  /\ UNCHANGED <<genFrame, genEffects, genManifest>>

\* generateComponents: await mkdir(componentsOutputDir, { recursive: true })
GenMkdirComponents ==
  /\ GenStep("mkdirComponents", "mkdir:components", "readManifest")
  /\ UNCHANGED genManifest

\* readFile(manifestPath) and JSON.parse; manifest.components.length
GenReadManifest ==
  /\ genPc = "readManifest"
  /\ \/ /\ manifestFile.whole
        /\ genManifest' = manifestFile.components
        /\ genEffects' = Append(genEffects, "read:manifest")
        /\ genPc' = "readRequirements"
        /\ UNCHANGED <<genOutcome, genError>>
     \/ /\ GenRejects("fs")
        /\ UNCHANGED <<genEffects, genManifest>>
  /\ UNCHANGED <<genFrame, options, manifestFile, manifestWas>>

\* readFile(technicalRequirementsPath); the template context is built
GenReadRequirements ==
  /\ GenStep("readRequirements", "read:requirements", "readTemplate")
  /\ UNCHANGED genManifest

\* readFile(templatePath); the prompt is compiled
GenReadTemplate ==
  /\ GenStep("readTemplate", "read:template", "mkdirPrompts")
  /\ UNCHANGED genManifest

\* await mkdir(promptOutputDir, { recursive: true })
GenMkdirPrompts ==
  /\ GenStep("mkdirPrompts", "mkdir:prompts", "writePrompt")
  /\ UNCHANGED genManifest

\* await writeFile(promptOutputPath, prompt)
GenWritePrompt ==
  /\ GenStep("writePrompt", "prompt", "cli")
  /\ UNCHANGED genManifest

\* execSync(`cat ${promptOutputPath} | claude -p ...`) in its try/catch;
\* generatePage returns after it, generateComponents goes on to the manifest
GenCli ==
  /\ genPc = "cli"
  /\ \/ /\ genEffects' = Append(genEffects, "cli")
        /\ IF options.type = "components"
             THEN /\ genManifest' = updatedComponents(genManifest, componentsOutputDir(options))
                  /\ genPc' = "writeManifest"
                  /\ UNCHANGED <<genOutcome, genError>>
             ELSE /\ genOutcome' = "resolved" /\ genPc' = "done"
                  /\ UNCHANGED <<genError, genManifest>>
     \/ /\ genEffects' = Append(genEffects, "cli:failed")
        /\ GenRejects("Claude CLI failed")
        /\ UNCHANGED genManifest
  /\ UNCHANGED <<genFrame, options, manifestFile, manifestWas>>

\* await writeFile(manifestPath, JSON.stringify(manifest, null, 2)); return
GenWriteManifest ==
  /\ genPc = "writeManifest"
  /\ \/ /\ manifestFile' = [whole |-> TRUE, components |-> genManifest]
        /\ genEffects' = Append(genEffects, "manifest")
        /\ genOutcome' = "resolved" /\ genPc' = "done"
        /\ UNCHANGED genError
     \/ /\ \/ UNCHANGED manifestFile
           \/ manifestFile' = [whole |-> FALSE, components |-> <<>>]
        /\ genEffects' = Append(genEffects, "manifest:failed")
        /\ GenRejects("fs")
  /\ UNCHANGED <<genFrame, options, genManifest, manifestWas>>

NextGenerate ==
  \/ CallGenerate
  \/ GenMkdirComponents \/ GenReadManifest \/ GenReadRequirements \/ GenReadTemplate
  \/ GenMkdirPrompts \/ GenWritePrompt \/ GenCli \/ GenWriteManifest

SpecGenerate == Init /\ [][NextGenerate]_vars

Named(k) == tasks[k].name # <<>>

\* C19: two filename generations for the same url at instants at least 1 ms
\* apart give distinct names, and the names are in lexicographic order
\* exactly when the instants are in chronological order (instants in the
\* years 0000 to 9999).
C19_NamesOrderedByTime ==
  \A j, k \in TaskIds :
    (Named(j) /\ Named(k) /\ tasks[j].url = tasks[k].url /\ Before(tasks[j].at, tasks[k].at))
      => /\ tasks[j].name # tasks[k].name
         /\ LexLess(tasks[j].name, tasks[k].name)
         /\ ~LexLess(tasks[k].name, tasks[j].name)

C19_Witness ==
  \E j, k \in TaskIds :
    /\ Named(j) /\ Named(k) /\ tasks[j].url = tasks[k].url
    /\ tasks[j].at = [day |-> 20818, ms |-> 86399999]
    /\ tasks[k].at = [day |-> 20819, ms |-> 0]
    /\ tasks[j].name = <<"_", "p", "_", "2", "0", "2", "6", "-", "1", "2", "-", "3", "1", "T",
                         "2", "3", "-", "5", "9", "-", "5", "9", "-", "9", "9", "9", "Z">>
    /\ tasks[k].name = <<"_", "p", "_", "2", "0", "2", "7", "-", "0", "1", "-", "0", "1", "T",
                         "0", "0", "-", "0", "0", "-", "0", "0", "-", "0", "0", "0", "Z">>

\* C20: no two captures of one host, sequential or concurrent and whatever
\* their url paths, ever write to the same HTML path or the same screenshot
\* path.
C20_NoSharedArtifactPath ==
  \A w1, w2 \in writes : w1.task # w2.task => w1.path # w2.path

\* C22: when launching the browser fails, scrapeUrl and crop reject with the
\* launch error and clean nothing up: no context is created, no page is
\* opened and no close call is issued on a browser or a context.
C22_LaunchFailureLeavesNothingToClose ==
  error = "launch" =>
    /\ op \in {"scrapeUrl", "crop"}
    /\ outcome = "rejected" /\ pc \in {"resume", "done"}
    /\ browser = "none" /\ context = "none" /\ page = "none"
    /\ closeCalls = 0
    /\ gotoLog = <<>> /\ events = <<>>

C22_Witness ==
  /\ op = "crop" /\ error = "launch" /\ outcome = "rejected" /\ pc = "done"
  /\ manifest # <<>> /\ closeCalls = 0 /\ browser = "none"

\* C24: in every navigation of the pipeline, scrapeUrl's and crop's, a grace
\* wait of 5 seconds is applied before the load-event wait whenever the
\* fallback tier is the one that succeeded, and none when the primary tier
\* succeeded.
C24_FallbackGraceWaitIsFiveSeconds ==
  /\ (navTier = "fallback" /\ loadState # "none") => graceMs = <<5000>>
  /\ navTier = "primary" => graceMs = <<>>

\* C25: after a successful navigation and before the dismissal stage begins,
\* scrapeUrl performs exactly one scroll, to an offset within 0..500 px, and
\* exactly one extra wait, of 3000..5000 ms, whatever the random source gives.
C25_OneHumanScrollAndJitter ==
  op = "scrapeUrl" =>
    /\ Len(humanScroll) <= 1 /\ Len(jitterMs) <= 1
    /\ \A i \in 1..Len(humanScroll) : humanScroll[i] \in 0..500
    /\ \A i \in 1..Len(jitterMs) : jitterMs[i] \in 3000..5000
    /\ navTier = "none" => (humanScroll = <<>> /\ jitterMs = <<>>)
    /\ jitterMs # <<>> => Len(humanScroll) = 1
    /\ (pc = "dm_wait" \/ events # <<>>) => (Len(humanScroll) = 1 /\ Len(jitterMs) = 1)

C25_Witness ==
  /\ op = "scrapeUrl" /\ Has(events, "dismiss:start")
  /\ humanScroll = <<499>> /\ jitterMs = <<4998>>

CaptureOrder == <<"scrollTop", "settleWait", "content", "html", "screenshot">>
CaptureRun ==
  SelectSeq(events, LAMBDA e : \E i \in 1..Len(CaptureOrder) : CaptureOrder[i] = e)

\* C26: full-page capture goes: scroll to top, 1 s settle wait, serialize the
\* DOM and write the HTML file, take the full-page screenshot; the screenshot
\* is never taken before the HTML file is written, and a failed HTML write
\* prevents the screenshot.
C26_FullPageCaptureOrder ==
  op = "scrapeUrl" =>
    /\ IsPrefix(CaptureRun, CaptureOrder)
    /\ Has(events, "screenshot") => (Has(events, "html") /\ htmlPathOf(arg) \in files)
    /\ screenshotPathOf(arg) \in files /\ results = <<>> => htmlPathOf(arg) \in files
    /\ error = "writeHtml" =>
         /\ CaptureRun = SubSeq(CaptureOrder, 1, 3)
         /\ pc \in {"finally", "settle", "resume", "done"}
         /\ result = NoResult
    /\ pc = "screenshot" => CaptureRun = SubSeq(CaptureOrder, 1, 4)

C26_Witness ==
  /\ op = "scrapeUrl" /\ outcome = "rejected" /\ error = "writeHtml"
  /\ CaptureRun = <<"scrollTop", "settleWait", "content">> /\ files = {}

\* the calls crop issued for the i-th component of the manifest
StepsOf(i) == SelectSeq(cropSteps, LAMBDA st : st.name = manifest[i].name)
Calls(steps) == [i \in 1..Len(steps) |-> steps[i].call]
ExpectedCalls == <<"waitFor", "scrollIntoViewIfNeeded", "waitForTimeout", "screenshot">>
RECURSIVE StepsInManifestOrder(_)
StepsInManifestOrder(i) ==
  IF i > compIdx THEN <<>> ELSE StepsOf(i) \o StepsInManifestOrder(i + 1)

\* C30: crop takes the components in manifest order and for each one waits
\* up to 5 s for the first matching element to be visible, scrolls it into
\* view, waits 500 ms and screenshots it to analysis/<name>.png; a file is
\* written only if all earlier steps of that component succeeded, a
\* component without cssSelector causes no browser action, and at most as
\* many files are written as there are components.
C30_ComponentStepsInOrder ==
  op = "crop" =>
    /\ cropSteps = StepsInManifestOrder(1)
    /\ \A i \in 1..compIdx :
         LET steps == StepsOf(i) IN
           /\ IsPrefix(Calls(steps), ExpectedCalls)
           /\ \A j \in 1..Len(steps) :
                /\ ~steps[j].ok => j = Len(steps)
                /\ steps[j].call = "waitFor" => steps[j].ms = 5000
                /\ steps[j].call = "waitForTimeout" => steps[j].ms = 500
           /\ manifest[i].cssSelector = "" <=> steps = <<>>
           /\ pngPathOf(arg, manifest[i].name) \in files
                <=> (Len(steps) = 4 /\ \A j \in 1..4 : steps[j].ok)
    /\ Cardinality(files) <= Len(manifest)

C30_Witness ==
  /\ op = "crop" /\ outcome = "resolved" /\ Len(manifest) = 2
  /\ manifest[1].cssSelector = "body" /\ manifest[2].cssSelector = "body"
  /\ Len(StepsOf(1)) = 3 /\ ~StepsOf(1)[3].ok
  /\ Len(StepsOf(2)) = 4 /\ StepsOf(2)[4].ok
  /\ files = {pngPathOf(arg, "B")}

\* C21: every call of scrapeUrl eventually settles (resolves or rejects):
\* no stage of it blocks for ever.
C21_ScrapeUrlSettles == (op = "scrapeUrl") ~> (pc = "done")

\* hidden in the words of the description: display none, visibility hidden,
\* zero opacity, or a box without extent
Hidden(img) ==
  \/ img.display = "none"
  \/ img.visibility = "hidden"
  \/ img.opacity = "0"
  \/ (img.width = 0 /\ img.height = 0)
Shown(imgs) == {i \in 1..Len(imgs) : ~Hidden(imgs[i])}
Pending(imgs) == {i \in Shown(imgs) : ~(imgs[i].complete /\ imgs[i].naturalHeight > 0)}

\* the in-page evaluation rejected and the catch block logged it
EvaluateThrew == Has(imagesLog, ImagesLine("Image loading check completed with timeout"))

\* C29: waitForImages counts only visible images: a hidden image (display
\* none, visibility hidden, zero opacity, zero size) never delays completion;
\* with no visible image the first poll resolves and schedules no other; and
\* a poll at which every visible image is complete with a natural height
\* above zero resolves the wait.
C29_OnlyVisibleImagesCount ==
  op = "waitForImages" =>
    /\ pc = "timer" => (Pending(images) # {} /\ elapsed <= timeoutMs)
    /\ Shown(images) = {} => (pc # "timer" /\ polls <= 1)
    /\ polls > 0 => visible = Cardinality(Shown(images))
    /\ (polls > 0 /\ pc # "poll" /\ ~EvaluateThrew) =>
         loaded = visible - Cardinality(Pending(images))
    /\ (pc = "done" /\ ~EvaluateThrew) =>
         /\ polls > 0
         /\ Pending(images) = {} \/ elapsed > timeoutMs

C29_Witness ==
  /\ op = "waitForImages" /\ pc = "done" /\ outcome = "resolved"
  /\ timeoutMs = DefaultTimeoutMs /\ polls = 2 /\ elapsed = PollIntervalMs
  /\ images = << Img("block", "visible", "0", 10, 10, FALSE, 0),
                 Img("block", "visible", "1", 10, 10, TRUE, 10) >>
  /\ Has(imagesLog, [line |-> "Loaded", loaded |-> 1, visible |-> 1])

\* C23: when a tool is run as a command, a fatal failure of its operation
\* (a usage error or a rejected promise) ends the process with exit status
\* 1, and a run without failure never exits with status 1.
C23_FailureExitsNonZero ==
  /\ failure # "none" => cliPc \in {"listing", "catch", "tryCatch", "exited"}
  /\ cliPc \in {"listing", "catch", "tryCatch"} => failure # "none"
  /\ cliPc = "exited" => (exitCode = 1 <=> failure # "none")
  /\ cliPc = "exited" => exitCode \in {0, 1}
  /\ cliPc # "exited" => exitCode = 0

C23_Witness ==
  /\ tool = "start" /\ cliPc = "exited" /\ exitCode = 1
  /\ failure = "rejected" /\ stepNo = 3 /\ StartSteps[stepNo] = "crop"

Resolved(k) == tasks[k].pc = "resolved"
ResultOf(k) == tasks[k].result[1]

\* the hostname with every '.' replaced by '-'
DashedHost(hostname) ==
  [i \in 1..Len(hostname) |-> IF hostname[i] = "." THEN "-" ELSE hostname[i]]

\* C27: whenever scrapeUrl resolves, the HTML file and the screenshot file
\* named in its result were written by that call; both lie under the domain
\* folder (the hostname with every '.' replaced by '-'), in html/ and in
\* screenshots/; and their file names have the same stem and the extensions
\* .html and .png.
C27_ResultNamesWrittenPair ==
  \A k \in TaskIds : Resolved(k) =>
    LET r == ResultOf(k) IN
      /\ [path |-> r.htmlPath, task |-> k] \in writes
      /\ [path |-> r.screenshotPath, task |-> k] \in writes
      /\ \A w \in writes : w.task = k => w.path \in {r.htmlPath, r.screenshotPath}
      /\ r.htmlPath.folder = DashedHost(r.url.hostname)
      /\ r.screenshotPath.folder = DashedHost(r.url.hostname)
      /\ r.htmlPath.dir = "html" /\ r.screenshotPath.dir = "screenshots"
      /\ r.htmlPath.stem = r.screenshotPath.stem
      /\ r.htmlPath.ext = ".html" /\ r.screenshotPath.ext = ".png"

C27_Witness ==
  \E k \in TaskIds :
    /\ Resolved(k)
    /\ ResultOf(k).url.hostname = <<"w", ".", "a", ".", "b">>
    /\ ResultOf(k).htmlPath.folder = <<"w", "-", "a", "-", "b">>
    /\ Before(tasks[k].at, now)
    /\ Cardinality({w \in writes : w.task = k}) = 2

\* the timestamp that a file name carries: what follows the sanitized path
\* and the '_'
FileNameTimestamp(url, stem) ==
  SubSeq(stem, Len(sanitizedPath(url)) + 2, Len(stem))

\* C28: the timestamp field of the result of scrapeUrl is the instant that
\* the file names of htmlPath and screenshotPath carry: the field with ':'
\* and '.' replaced by '-' is the timestamp of the file name.
C28_TimestampIsFileNameInstant ==
  \A k \in TaskIds : Resolved(k) =>
    LET r == ResultOf(k) IN
      /\ FileNameTimestamp(r.url, r.htmlPath.stem)
           = ReplaceAll(ReplaceAll(r.timestamp, ":", "-"), ".", "-")
      /\ FileNameTimestamp(r.url, r.screenshotPath.stem)
           = ReplaceAll(ReplaceAll(r.timestamp, ":", "-"), ".", "-")

\* C31: during a run of scrapeUrls at most one browser process is open at
\* any time, no browser ever hosts more than one context or one page (and
\* hosts one of each once navigation has begun), and the browser used for
\* one url is closed before the call for the next url begins.
C31_OneBrowserAtATime ==
  caller = "scrapeUrls" =>
    /\ openBrowsers <= 1
    /\ openBrowsers = 1 <=> browser = "open"
    /\ pc \in {"dirs", "launch", "resume"} => openBrowsers = 0
    /\ hosted.contexts <= 1 /\ hosted.pages <= 1 /\ hosted.pages <= hosted.contexts
    /\ gotoLog # <<>> => hosted = [contexts |-> 1, pages |-> 1]
    /\ batchOutcome # "pending" => openBrowsers = 0

C31_Witness ==
  /\ caller = "scrapeUrls" /\ urlIdx = 2 /\ Len(results) = 1
  /\ browser = "open" /\ openBrowsers = 1 /\ gotoLog # <<>>
  /\ hosted = [contexts |-> 1, pages |-> 1]

\* the run that wrote file f
WriterOf(f) == CHOOSE k \in TaskIds : [path |-> f, task |-> k] \in writes
\* the runs that left a file with extension ext in directory dir of the folder
RunsWith(dir, ext) ==
  {k \in TaskIds : \E w \in writes :
     w.task = k /\ w.path.folder = dArg /\ w.path.dir = dir /\ w.path.ext = ext}

\* C32: among the capture files that runs of scrapeUrl have written into one
\* domain's html directory, for whatever urls of that host, getLatestFile
\* returns the file of the most recent capture.
C32_LatestFileIsMostRecentCapture ==
  (dPc \notin {"idle", "mkdir", "latestHtml"} /\ htmlFile # <<>>) =>
    \A k \in RunsWith("html", ".html") :
      ~Before(tasks[WriterOf(htmlFile[1])].at, tasks[k].at)

\* C33: after any sequence of runs of scrapeUrl on one host, failed ones
\* included, the HTML file and the screenshot file that deconstructSite
\* takes as latest have the same stem.
C33_LatestPairIsOneCapture ==
  (htmlFile # <<>> /\ screenshotFile # <<>>) =>
    htmlFile[1].stem = screenshotFile[1].stem

NoCaptureFound == {"No HTML files found", "No screenshot files found"}

\* C38: deconstructSite rejects, with no prompt file written, no Claude CLI
\* run and no manifest.json written, when the domain folder has no HTML file
\* or no screenshot file; manifest.json is written only after the CLI
\* succeeded with a fenced block in its output; and a CLI failure rejects
\* with 'Claude CLI failed' and leaves manifest.json as it was.
C38_DeconstructWritesOnlyOnSuccess ==
  /\ (DirFiles(dArg, "html") = {} /\ dPc \notin {"idle", "mkdir", "latestHtml"}) =>
       (dOutcome = "rejected" /\ dError \in {"mkdir", "No HTML files found"})
  /\ (DirFiles(dArg, "screenshots") = {} /\ dPc \notin {"idle", "mkdir", "latestHtml", "latestPng"}) =>
       (dOutcome = "rejected" /\ dError \in {"mkdir"} \cup NoCaptureFound)
  /\ dError \in NoCaptureFound =>
       /\ dOutcome = "rejected" /\ dPc = "done"
       /\ dEffects = <<"mkdir:analysis">>
       /\ manifestJson \in {"absent", "old"}
  /\ (Has(dEffects, "manifest") \/ manifestJson \in {"new", "partial"}) =>
       (Has(dEffects, "cli:fenced") /\ Has(dEffects, "prompt"))
  /\ Has(dEffects, "cli:failed") =>
       /\ dOutcome = "rejected" /\ dError = "Claude CLI failed"
       /\ manifestJson \in {"absent", "old"}
       /\ ~Has(dEffects, "manifest") /\ ~Has(dEffects, "manifest:failed")
  /\ dOutcome = "resolved" => (manifestJson = "new" <=> Has(dEffects, "cli:fenced"))

C38_Witness ==
  /\ dOutcome = "rejected" /\ dError = "Claude CLI failed"
  /\ dEffects = <<"mkdir:analysis", "mkdir:prompts", "prompt", "cli:failed">>
  /\ manifestJson = "old" /\ htmlFile # <<>> /\ screenshotFile # <<>>

\* C34: the domain folder round-trips: the hostname crop derives from the
\* folder of a scraped url, and the domain deconstructSite derives from it,
\* equal the hostname of that url.
C34_DomainFolderRoundTrips ==
  /\ cropHostname # <<>> => cropHostname = siteHost
  /\ domain # <<>> => domain = siteHost

\* C39: crop with a manifest whose component list is empty or missing
\* resolves straight after the manifest was read: no browser was launched or
\* closed, the analysis directory was not created, no page was visited and no
\* file was written.
C39_EmptyManifestDoesNothing ==
  (op = "crop" /\ pc \notin {"idle", "manifest"} /\ error # "loadManifest"
     /\ manifest = <<>>) =>
    /\ pc = "done" /\ outcome = "resolved" /\ error = "none"
    /\ browser = "none" /\ context = "none" /\ page = "none"
    /\ openBrowsers = 0 /\ closeCalls = 0
    /\ ~analysisMade /\ events = <<>> /\ gotoLog = <<>> /\ cropLog = <<>> /\ files = {}

C39_Witness ==
  /\ op = "crop" /\ pc = "done" /\ outcome = "resolved"
  /\ manifest = <<>> /\ ~analysisMade /\ openBrowsers = 0 /\ files = {}

\* C36: generate with type 'page' and a missing targetFile or pageName, or
\* with an unknown type, rejects with its validation error having read no
\* manifest, written no prompt, started no Claude CLI, made no directory and
\* left manifest.json as it was.
C36_InvalidOptionsRejectedFirst ==
  (genPc # "idle" /\
     \/ options.type = "page" /\ (Falsy(options.targetFile) \/ Falsy(options.pageName))
     \/ options.type \notin {"components", "page"}) =>
    /\ genPc = "done" /\ genOutcome = "rejected"
    /\ genError = (IF options.type = "page"
                     THEN "targetFile and pageName are required for page generation"
                     ELSE "Unknown generation type")
    /\ genEffects = <<>> /\ genManifest = <<>> /\ manifestFile = manifestWas

C36_Witness ==
  /\ genPc = "done" /\ genOutcome = "rejected" /\ genEffects = <<>>
  /\ options.type = "page" /\ options.targetFile = "given" /\ options.pageName = ""
  /\ manifestWas.components # <<>>

\* the name without one leading prefix of digits and a dash
Unprefixed(name, rest) ==
  \/ \E k \in 2..Len(name) :
       /\ \A i \in 1..(k - 1) : name[i] \in Digits
       /\ name[k] = "-"
       /\ rest = SubSeq(name, k + 1, Len(name))
  \/ /\ rest = name
     /\ ~ \E k \in 2..Len(name) :
            (\A i \in 1..(k - 1) : name[i] \in Digits) /\ name[k] = "-"

GenHas(effect) == \E i \in 1..Len(genEffects) : genEffects[i] = effect

\* C37: in components generation manifest.json is written only after the
\* Claude CLI succeeded; when generate resolved, every component of the
\* file has the fields it had before, unchanged, and a sourceFile of
\* <components dir>/<name without its digits-and-dash prefix>.tsx; when the
\* CLI failed, generate rejected with that error and the file is untouched.
C37_ManifestGainsSourceFiles ==
  options.type = "components" =>
    /\ (manifestFile # manifestWas \/ GenHas("manifest") \/ GenHas("manifest:failed"))
         => GenHas("cli") /\ GenHas("prompt")
    /\ genOutcome = "resolved" =>
         /\ GenHas("manifest") /\ manifestFile.whole
         /\ Len(manifestFile.components) = Len(manifestWas.components)
         /\ \A i \in 1..Len(manifestWas.components) :
              LET before == manifestWas.components[i]
                  after  == manifestFile.components[i] IN
              /\ DOMAIN after = DOMAIN before \cup {"sourceFile"}
              /\ \A f \in DOMAIN before \ {"sourceFile"} : after[f] = before[f]
              /\ Len(after.sourceFile) = 5
              /\ SubSeq(after.sourceFile, 1, 4)
                   = <<options.sfNextDir, "src", "components",
                       toLowerCase(domainLabels(options.subfolder)[2])>>
              /\ \E rest \in {SubSeq(before.name, j, Len(before.name)) :
                                 j \in 1..(Len(before.name) + 1)} :
                   /\ Unprefixed(before.name, rest)
                   /\ after.sourceFile[5] = rest \o <<".tsx">>
    /\ GenHas("cli:failed") =>
         /\ genOutcome = "rejected" /\ genError = "Claude CLI failed"
         /\ manifestFile = manifestWas /\ ~GenHas("manifest")

C37_Witness ==
  /\ options.type = "components" /\ genOutcome = "resolved"
  /\ Len(manifestWas.components) = 2
  /\ manifestWas.components[1].name = <<"0", "1", "-", "H">>
  /\ manifestFile.components[1].sourceFile
       = <<"storefront-next", "src", "components", <<"a">>, <<"H", ".tsx">> >>
  /\ "description" \in DOMAIN manifestFile.components[2]

\* the log of a workflow that began n steps: the first n steps in their
\* order, each but the last followed by "ok"
StepsBegun(n) ==
  [i \in 1..(2 * n - 1) |-> IF i % 2 = 1 THEN StartSteps[(i + 1) \div 2] ELSE "ok"]

\* C35: start runs scrape, deconstruct, crop, generate components, generate
\* page in this order, each begun only after the one before it returned;
\* after a step failed no further step begins and the process exits with
\* status 1; it exits with 0 only after all five returned.
C35_WorkflowStepsInOrder ==
  (tool = "start" /\ stepNo >= 1) =>
    /\ stepNo <= Len(StartSteps)
    /\ \/ stepLog = StepsBegun(stepNo)
       \/ stepLog = Append(StepsBegun(stepNo), "ok")
       \/ stepLog = Append(StepsBegun(stepNo), "failed")
    /\ cliPc = "step" => stepLog = StepsBegun(stepNo)
    /\ Has(stepLog, "failed") =>
         /\ cliPc \in {"tryCatch", "exited"}
         /\ cliPc = "exited" => exitCode = 1
    /\ (cliPc = "exited" /\ exitCode = 0) =>
         stepLog = Append(StepsBegun(Len(StartSteps)), "ok")

C35_Witness ==
  /\ tool = "start" /\ cliPc = "exited" /\ exitCode = 1
  /\ stepLog = <<"scrapeUrl", "ok", "deconstructSite", "failed">>

====
